---- MODULE Spec2Model ----
(***************************************************************************)
(* A model of boon's schema compiler (src/src/compiler.rs) and validator   *)
(* (src/src/validator.rs).                                                 *)
(*                                                                         *)
(* JSON values are records of one shape; an object is the sequence of its  *)
(* <<key, value>> entries in key order, a location string "url#/a/b" is the *)
(* record [url, hash, ptr] of its url, whether it holds a '#', and the      *)
(* tokens of its JSON pointer.  Schema indices are 0-based as in the code:  *)
(* index i is list[i + 1].                                                  *)
(***************************************************************************)
EXTENDS Integers, Sequences, FiniteSets, TLC

VARIABLES
    roots,      \* Compiler.roots: the urls of the documents in the catalog
    list,       \* Schemas: the stored nodes, in index order
    map,        \* Schemas: location -> index of the stored node (by_loc)
    queue,      \* compile: the FIFO queue of pending locations
    pc,         \* "idle", or "loop" inside Compiler::compile's while loop
    sch_index,  \* compile: the local sch_index, an option
    ret,        \* the result of the last finished compile call
    reqLoc,     \* the location the running / last compile call was given
    list0,      \* the stored nodes when the running / last compile call began
    done,       \* the locations the running / last compile call inserted, in order
    calls,      \* number of compile calls made
    promised,   \* per stored node: the <<index, location>> pairs enqueue gave it
    vin,        \* the last Schemas::validate call: its instance and index
    vout        \* the last Schemas::validate call: its result

vars == <<roots, list, map, queue, pc, sch_index, ret, reqLoc, list0, done, calls, promised, vin, vout>>

\* Largest number of Compiler::compile calls in one behaviour.
MaxCalls == 2
\* The number of add_resource calls of a run.
MaxResources == 2

(***************************************************************************)
(* JSON values (serde_json::Value).                                        *)
(***************************************************************************)
JNull == [t |-> "null", b |-> FALSE, n |-> 0, s |-> "", a |-> <<>>, o |-> <<>>]
JBool(x) == [t |-> "bool", b |-> x, n |-> 0, s |-> "", a |-> <<>>, o |-> <<>>]
JNum(x) == [t |-> "num", b |-> FALSE, n |-> x, s |-> "", a |-> <<>>, o |-> <<>>]
JStr(x) == [t |-> "str", b |-> FALSE, n |-> 0, s |-> x, a |-> <<>>, o |-> <<>>]
JArr(x) == [t |-> "arr", b |-> FALSE, n |-> 0, s |-> "", a |-> x, o |-> <<>>]
JObj(x) == [t |-> "obj", b |-> FALSE, n |-> 0, s |-> "", a |-> <<>>, o |-> x]

\* Option<T>.
None == [some |-> FALSE, v |-> 0]
Some(x) == [some |-> TRUE, v |-> x]

\* Map::contains_key / Map::get on an object's entries.
HasKey(obj, k) == \E i \in 1..Len(obj) : obj[i][1] = k
Get(obj, k) == obj[CHOOSE i \in 1..Len(obj) : obj[i][1] = k][2]
Keys(obj) == [i \in 1..Len(obj) |-> obj[i][1]]

\* The decimal form of an array index ({i} in format!), and its parse.
IdxStr == <<"0", "1", "2", "3", "4", "5">>
ToStr(i) == IdxStr[i + 1]
IsIdxStr(tok) == \E i \in 1..Len(IdxStr) : IdxStr[i] = tok
ParseIdx(tok) == (CHOOSE i \in 1..Len(IdxStr) : IdxStr[i] = tok) - 1

(***************************************************************************)
(* The documents the url loader / add_resource can supply, by url, and the *)
(* draft each one declares.                                                *)
(***************************************************************************)
\* Draft 4: definitions.x holds the draft-4 shapes of the exclusive bounds,
\* a node with two property dependencies, a list-form "items" with
\* "additionalItems", and a node that holds only keywords of later drafts.
DocA_x == JObj(<<
    <<"properties", JObj(<<
        <<"ai", JObj(<< <<"additionalItems", JObj(<< <<"type", JStr("string")>> >>)>>,
                       <<"items", JArr(<< JObj(<< <<"type", JStr("number")>> >>) >>)>> >>)>>,
        <<"dep", JObj(<< <<"dependencies", JObj(<<
                            <<"p", JArr(<<JStr("m")>>)>>,
                            <<"y", JArr(<<JStr("n")>>)>> >>)>> >>)>>,
        <<"hi", JObj(<< <<"exclusiveMaximum", JBool(TRUE)>>, <<"maximum", JNum(5)>> >>)>>,
        <<"lo", JObj(<< <<"exclusiveMinimum", JBool(TRUE)>>, <<"minimum", JNum(5)>> >>)>>,
        <<"lof", JObj(<< <<"exclusiveMinimum", JBool(FALSE)>>, <<"minimum", JNum(5)>> >>)>>,
        <<"old", JObj(<< <<"contains", JObj(<< <<"type", JStr("string")>> >>)>>,
                        <<"dependentRequired", JObj(<< <<"y", JArr(<<JStr("z")>>)>> >>)>>,
                        <<"dependentSchemas", JObj(<< <<"y", JObj(<< <<"type", JStr("string")>> >>)>> >>)>>,
                        <<"else", JObj(<< <<"type", JStr("string")>> >>)>>,
                        <<"if", JObj(<< <<"type", JStr("string")>> >>)>>,
                        <<"minContains", JNum(2)>>,
                        <<"prefixItems", JArr(<< JObj(<< <<"type", JStr("string")>> >>) >>)>>,
                        <<"propertyNames", JObj(<< <<"maxLength", JNum(0)>> >>)>> >>)>> >>)>> >>)

DocA == JObj(<<
    <<"definitions", JObj(<< <<"s", JObj(<< <<"type", JStr("string")>> >>)>>,
                             <<"x", DocA_x>> >>)>>,
    <<"properties", JObj(<<
        <<"p", JObj(<< <<"$ref", JStr("#")>> >>)>>,
        <<"q", JObj(<< <<"$ref", JStr("#/definitions/s")>>, <<"maxLength", JNum(1)>> >>)>> >>)>>,
    <<"type", JStr("object")>> >>)

DocB == JObj(<<
    <<"anyOf", JArr(<< JObj(<< <<"$ref", JStr("a")>> >>),
                       JObj(<< <<"$ref", JStr("#/nowhere")>> >>) >>)>> >>)

DocC == JObj(<<
    <<"definitions", JObj(<<
        <<"e", JObj(<< <<"$ref", JStr("#/definitions/e")>> >>)>>,
        <<"f", JBool(FALSE)>>,
        <<"i", JObj(<< <<"additionalProperties", JBool(FALSE)>> >>)>>,
        <<"r", JObj(<< <<"additionalProperties", JObj(<< <<"$ref", JStr("#/definitions/f")>> >>)>> >>)>>,
        <<"t", JBool(TRUE)>> >>)>>,
    <<"properties", JObj(<<
        <<"g", JObj(<< <<"dependentRequired", JObj(<< <<"y", JArr(<<JStr("z")>>)>> >>)>>,
                      <<"else", JObj(<< <<"type", JStr("string")>> >>)>>,
                      <<"if", JObj(<< <<"type", JStr("string")>> >>)>>,
                      <<"maxContains", JNum(0)>> >>)>>,
        <<"x", JBool(TRUE)>>,
        <<"y", JBool(FALSE)>> >>)>> >>)

\* Draft 2020-12: each property of the root holds the schema of one keyword.
IsNumber == JObj(<< <<"type", JStr("number")>> >>)
IsString == JObj(<< <<"type", JStr("string")>> >>)
DocD == JObj(<<
    <<"properties", JObj(<<
        <<"con", JObj(<< <<"contains", IsNumber>> >>)>>,
        <<"con0", JObj(<< <<"contains", IsNumber>>, <<"minContains", JNum(0)>> >>)>>,
        <<"con2", JObj(<< <<"contains", IsNumber>>, <<"minContains", JNum(2)>> >>)>>,
        <<"conx", JObj(<< <<"contains", IsNumber>>, <<"maxContains", JNum(1)>> >>)>>,
        <<"dyn", JObj(<< <<"$dynamicRef", JStr("#A")>> >>)>>,
        <<"en", JObj(<< <<"const", JStr("ab")>>,
                       <<"enum", JArr(<<JStr("ab")>>)>>,
                       <<"maxLength", JNum(2)>> >>)>>,
        <<"ge", JObj(<< <<"minimum", JNum(5)>> >>)>>,
        <<"gt", JObj(<< <<"exclusiveMinimum", JNum(5)>> >>)>>,
        <<"it", JObj(<< <<"if", IsString>>,
                        <<"then", JObj(<< <<"maxLength", JNum(2)>> >>)>> >>)>>,
        <<"ite", JObj(<< <<"else", IsNumber>>,
                         <<"if", IsString>>,
                         <<"then", JObj(<< <<"maxLength", JNum(2)>> >>)>> >>)>>,
        <<"len", JObj(<< <<"maxLength", JNum(2)>> >>)>>,
        <<"lt", JObj(<< <<"exclusiveMaximum", JNum(5)>> >>)>>,
        <<"one", JObj(<< <<"oneOf", JArr(<<
                            IsString,
                            JObj(<< <<"maxLength", JNum(2)>>,
                                    <<"type", JArr(<<JStr("number"), JStr("string")>>)>> >>),
                            JObj(<< <<"minLength", JNum(1)>>, <<"type", JStr("string")>> >>) >>)>> >>)>>,
        <<"one1", JObj(<< <<"oneOf", JArr(<<IsString>>)>> >>)>>,
        <<"pre", JObj(<< <<"additionalItems", JBool(FALSE)>>,
                        <<"items", IsString>>,
                        <<"prefixItems", JArr(<<IsNumber>>)>> >>)>>,
        <<"rec", JObj(<< <<"$recursiveRef", JStr("#/properties/tgt")>> >>)>>,
        <<"tgt", JObj(<< <<"$dynamicAnchor", JStr("A")>>, <<"type", JStr("string")>> >>)>>,
        <<"u", JObj(<< <<"properties", JObj(<< <<"y", IsNumber>> >>)>>,
                       <<"unevaluatedProperties", JBool(FALSE)>> >>)>> >>)>> >>)

DocUrls == {"a", "b", "c", "d"}
Doc(url) ==
    CASE url = "a" -> DocA
      [] url = "b" -> DocB
      [] url = "c" -> DocC
      [] url = "d" -> DocD

\* Root.draft.version of the root at url.
DraftVersion(url) ==
    CASE url = "a" -> 4
      [] url = "b" -> 2019
      [] url = "c" -> 6
      [] url = "d" -> 2020

(***************************************************************************)
(* Location strings.                                                       *)
(***************************************************************************)
Loc(url, ptr) == [url |-> url, hash |-> TRUE, ptr |-> ptr]
\* A location string that holds no '#'.
Bare(url) == [url |-> url, hash |-> FALSE, ptr |-> <<>>]

\* if loc.rfind('#').is_none() { loc.push('#') }
EnsureFragment(loc) == IF loc.hash THEN loc ELSE [loc EXCEPT !.hash = TRUE]

\* util::split: the url and the pointer halves of a location.
split(loc) == [url |-> loc.url, ptr |-> loc.ptr]

\* util::escape of a pointer token; no key of the documents holds '~' or '/',
\* the only characters it rewrites.
escape(tok) == tok

\* format!("{loc}/{tok}")
Child(loc, tok) == [loc EXCEPT !.ptr = Append(@, tok)]

\* The reference strings of the documents, parsed (Url::parse): a reference
\* with an empty url is relative to the document that holds it.
RefOf(str) ==
    CASE str = "#" -> [url |-> "", hash |-> TRUE, ptr |-> <<>>]
      [] str = "#/definitions/s" -> [url |-> "", hash |-> TRUE, ptr |-> <<"definitions", "s">>]
      [] str = "#/definitions/e" -> [url |-> "", hash |-> TRUE, ptr |-> <<"definitions", "e">>]
      [] str = "#/definitions/f" -> [url |-> "", hash |-> TRUE, ptr |-> <<"definitions", "f">>]
      [] str = "#/nowhere" -> [url |-> "", hash |-> TRUE, ptr |-> <<"nowhere">>]
      [] str = "a" -> [url |-> "a", hash |-> FALSE, ptr |-> <<>>]

\* root.base_url(ref_).join(ref_): no document declares an embedded id, so
\* the base url of every reference is the url of its root.
JoinRef(base, str) ==
    LET r == RefOf(str) IN [r EXCEPT !.url = IF r.url = "" THEN base ELSE r.url]

\* Root::lookup_ptr: the sub-value a pointer names, if any.
RECURSIVE lookup_ptr(_, _)
lookup_ptr(v, ptr) ==
    IF ptr = <<>> THEN Some(v)
    ELSE LET tok == Head(ptr) IN
         CASE v.t = "obj" ->
                IF HasKey(v.o, tok) THEN lookup_ptr(Get(v.o, tok), Tail(ptr)) ELSE None
           [] v.t = "arr" ->
                IF IsIdxStr(tok) /\ ParseIdx(tok) < Len(v.a)
                THEN lookup_ptr(v.a[ParseIdx(tok) + 1], Tail(ptr))
                ELSE None
           [] OTHER -> None

(***************************************************************************)
(* Schema nodes and the Schemas store.                                     *)
(***************************************************************************)
NoneB == [some |-> FALSE, v |-> FALSE]
\* Additional: None | Bool(b) | SchemaRef(idx)
NoAdditional == [tag |-> "none", b |-> FALSE, idx |-> 0]
AdditionalBool(x) == [tag |-> "bool", b |-> x, idx |-> 0]
AdditionalSchemaRef(i) == [tag |-> "ref", b |-> FALSE, idx |-> i]
\* Items: None | SchemaRef(idx) | SchemaRefs(list)
NoItems == [tag |-> "none", idx |-> 0, list |-> <<>>]
ItemsSchemaRef(i) == [tag |-> "ref", idx |-> i, list |-> <<>>]
ItemsSchemaRefs(l) == [tag |-> "refs", idx |-> 0, list |-> l]
\* Dependency: Props(list) | SchemaRef(idx)
DependencyProps(l) == [tag |-> "props", props |-> l, idx |-> 0]
DependencySchemaRef(i) == [tag |-> "ref", props |-> <<>>, idx |-> i]

\* Option<String>, and DynamicRef {sch, anchor} under Option.
NoneS == [some |-> FALSE, v |-> ""]
NoDynamicRef == [some |-> FALSE, sch |-> 0, anchor |-> NoneS]

\* Type::of
Type_of(v) ==
    CASE v.t = "null" -> "null"
      [] v.t = "bool" -> "boolean"
      [] v.t = "num" -> "number"
      [] v.t = "str" -> "string"
      [] v.t = "arr" -> "array"
      [] v.t = "obj" -> "object"

\* Option<Enum {types, values}> and Option<Value>.
NoEnum == [some |-> FALSE, types |-> {}, values |-> <<>>]
NoneV == [some |-> FALSE, v |-> JNull]

\* Schema::new(loc): every field but loc at its default.  The fields of the
\* keywords that no document of the catalog holds (format, multipleOf,
\* uniqueItems, pattern, patternProperties, contentEncoding,
\* contentMediaType) are left out, with the code that reads them.
SchemaNew(loc) ==
    [idx |-> 0, loc |-> loc, resource |-> 0, boolean |-> NoneB, draft_version |-> 0,
     types |-> {}, enum_ |-> NoEnum, constant |-> NoneV,
     minimum |-> None, maximum |-> None,
     exclusive_minimum |-> None, exclusive_maximum |-> None,
     min_properties |-> None, max_properties |-> None, required |-> <<>>,
     min_items |-> None, max_items |-> None,
     min_length |-> None, max_length |-> None,
     ref_ |-> None, recursive_ref |-> None, recursive_anchor |-> FALSE,
     dynamic_ref |-> NoDynamicRef, dynamic_anchor |-> NoneS, dynamic_anchors |-> <<>>,
     not |-> None, all_of |-> <<>>, any_of |-> <<>>, one_of |-> <<>>,
     properties |-> <<>>, additional_properties |-> NoAdditional,
     items |-> NoItems, additional_items |-> NoAdditional,
     dependencies |-> <<>>, property_names |-> None, contains |-> None,
     if_ |-> None, then |-> None, else_ |-> None,
     min_contains |-> None, max_contains |-> None,
     dependent_schemas |-> <<>>, dependent_required |-> <<>>,
     contains_marks_evaluated |-> FALSE, prefix_items |-> <<>>, items2020 |-> None,
     unevaluated_properties |-> None, unevaluated_items |-> None,
     all_props_evaluated |-> FALSE, all_items_evaluated |-> FALSE]

\* Op(x) with x bound to the value of e: a let that evaluates e once.
Bind(e, Op(_)) == CHOOSE r \in {Op(x) : x \in {e}} : TRUE

\* Position (from 1) of loc in q, 0 when absent: queue.iter().position(..)
Position(q, loc) ==
    IF \E i \in 1..Len(q) : q[i] = loc
    THEN CHOOSE i \in 1..Len(q) : q[i] = loc /\ \A j \in 1..(i - 1) : q[j] # loc
    ELSE 0

\* Schemas::enqueue(queue, loc): the index of loc's node, stored or future,
\* and the queue with loc added when it is new.
enqueue_loc(q, loc) ==
    IF loc \in DOMAIN map THEN [idx |-> map[loc], q |-> q]
    ELSE IF Position(q, loc) # 0 THEN [idx |-> Len(list) + Position(q, loc) - 1, q |-> q]
    ELSE [idx |-> Len(list) + Len(q), q |-> Append(q, loc)]
enqueue(q0, loc0) ==
    Bind(q0, LAMBDA q : Bind(EnsureFragment(loc0), LAMBDA loc : enqueue_loc(q, loc)))

\* enqueue applied to each of locs in turn: the indices, and the queue after.
RECURSIVE enqueue_all(_, _)
enqueue_all(q, locs) ==
    IF locs = <<>> THEN [v |-> <<>>, q |-> q]
    ELSE Bind(enqueue(q, Head(locs)), LAMBDA e :
         Bind(enqueue_all(e.q, Tail(locs)), LAMBDA r :
              [v |-> <<e.idx>> \o r.v, q |-> r.q]))

\* Schemas::insert(loc, sch): the list and the map after the node is appended.
insert(loc, sch) ==
    [list |-> Append(list, [sch EXCEPT !.idx = Len(list)]),
     map |-> [l \in DOMAIN map \cup {loc} |-> IF l = loc THEN Len(list) ELSE map[l]],
     index |-> Len(list)]

\* Schemas::get(idx)
get(i) == list[i + 1]

(***************************************************************************)
(* Compiler::compile_one and its helper closures.                          *)
(***************************************************************************)
TypeNames == {"null", "boolean", "number", "integer", "string", "array", "object"}

\* load_usize: a number that is a u64.
load_usize(obj, pname) ==
    IF HasKey(obj, pname) /\ Get(obj, pname).t = "num" /\ Get(obj, pname).n >= 0
    THEN Some(Get(obj, pname).n) ELSE None

\* load_num
load_num(obj, pname) ==
    IF HasKey(obj, pname) /\ Get(obj, pname).t = "num" THEN Some(Get(obj, pname).n) ELSE None

\* to_strings: the strings of an array, in order; empty for anything else.
RECURSIVE StringsOf(_)
StringsOf(a) ==
    IF a = <<>> THEN <<>>
    ELSE (IF Head(a).t = "str" THEN <<Head(a).s>> ELSE <<>>) \o StringsOf(Tail(a))
to_strings(v) == IF v.t = "arr" THEN StringsOf(v.a) ELSE <<>>

\* load_schema
load_schema(q, obj, loc, pname) ==
    IF HasKey(obj, pname)
    THEN Bind(enqueue(q, Child(loc, escape(pname))), LAMBDA e : [v |-> Some(e.idx), q |-> e.q])
    ELSE Bind(q, LAMBDA q1 : [v |-> None, q |-> q1])

\* load_schema_arr
load_schema_arr(q, obj, loc, pname) ==
    IF HasKey(obj, pname) /\ Get(obj, pname).t = "arr"
    THEN enqueue_all(q, [i \in 1..Len(Get(obj, pname).a) |-> Child(Child(loc, pname), ToStr(i - 1))])
    ELSE Bind(q, LAMBDA q1 : [v |-> <<>>, q |-> q1])

\* load_schema_map: the <<key, index>> pairs, in key order.
load_schema_map(q, obj, loc, pname) ==
    IF HasKey(obj, pname) /\ Get(obj, pname).t = "obj"
    THEN LET ks == Keys(Get(obj, pname).o)
         IN Bind(enqueue_all(q, [i \in 1..Len(ks) |-> Child(Child(loc, pname), escape(ks[i]))]),
                 LAMBDA r : [v |-> [i \in 1..Len(ks) |-> <<ks[i], r.v[i]>>], q |-> r.q])
    ELSE Bind(q, LAMBDA q1 : [v |-> <<>>, q |-> q1])

\* Additional::Bool for a boolean, else load_schema(..).map(Additional::SchemaRef)
load_additional(q, obj, loc, pname) ==
    IF HasKey(obj, pname) /\ Get(obj, pname).t = "bool"
    THEN Bind(q, LAMBDA q1 : [v |-> AdditionalBool(Get(obj, pname).b), q |-> q1])
    ELSE Bind(load_schema(q, obj, loc, pname), LAMBDA r :
              [v |-> IF r.v.some THEN AdditionalSchemaRef(r.v.v) ELSE NoAdditional, q |-> r.q])

\* The filter_map over the entries of "dependencies".
RECURSIVE load_dependencies(_, _, _)
load_dependencies(q, entries, loc) ==
    IF entries = <<>> THEN Bind(q, LAMBDA q1 : [v |-> <<>>, q |-> q1])
    ELSE LET k == Head(entries)[1]
             v == Head(entries)[2]
         IN CASE v.t = "arr" ->
                   Bind(load_dependencies(q, Tail(entries), loc), LAMBDA r :
                        [v |-> << <<k, DependencyProps(to_strings(v))>> >> \o r.v, q |-> r.q])
              [] v.t = "obj" ->
                   Bind(enqueue(q, Child(Child(loc, "dependencies"), escape(k))), LAMBDA e :
                   Bind(load_dependencies(e.q, Tail(entries), loc), LAMBDA r :
                        [v |-> << <<k, DependencySchemaRef(e.idx)>> >> \o r.v, q |-> r.q]))
              [] OTHER -> load_dependencies(q, Tail(entries), loc)

\* "type": a name, or an array of names; unknown names are dropped.
load_types(obj) ==
    IF ~HasKey(obj, "type") THEN {}
    ELSE LET t == Get(obj, "type") IN
         CASE t.t = "str" -> {t.s} \cap TypeNames
           [] t.t = "arr" -> {t.a[i].s : i \in {j \in 1..Len(t.a) : t.a[j].t = "str"}} \cap TypeNames
           [] OTHER -> {}

\* load_bounds with a boolean exclusive keyword read as absent.
load_bounds_flag_ignored(obj, name, exclusiveName) ==
    [bound |-> load_num(obj, name),
     exclusive |-> IF HasKey(obj, exclusiveName) /\ Get(obj, exclusiveName).t = "bool"
                   THEN None ELSE load_num(obj, exclusiveName)]

\* minimum and exclusiveMinimum (lines 202-209), maximum and
\* exclusiveMaximum (lines 211-218): a true draft-4 flag moves the bound into
\* the exclusive slot.
load_bounds(obj, name, exclusiveName) ==
    LET flag == HasKey(obj, exclusiveName) /\ Get(obj, exclusiveName).t = "bool"
        num == load_num(obj, name)
    IN [bound |-> IF flag /\ Get(obj, exclusiveName).b THEN None ELSE num,
        exclusive |-> IF flag THEN (IF Get(obj, exclusiveName).b THEN num ELSE None)
                      ELSE load_num(obj, exclusiveName)]

\* s.enum_ = e.clone() (lines 198-200): the values of an "enum" array, with
\* the types they have.
load_enum(obj) ==
    IF HasKey(obj, "enum") /\ Get(obj, "enum").t = "arr"
    THEN LET e == Get(obj, "enum").a
         IN [some |-> TRUE, types |-> {Type_of(e[i]) : i \in 1..Len(e)}, values |-> e]
    ELSE NoEnum

\* The keywords of compile_one that hold no sub-schema (lines 182-236); no
\* line of it reads "const".
compile_assertions(s, obj) ==
    LET min == load_bounds(obj, "minimum", "exclusiveMinimum")
        max == load_bounds(obj, "maximum", "exclusiveMaximum")
    IN [s EXCEPT
          !.types = load_types(obj),
          !.enum_ = load_enum(obj),
          !.minimum = min.bound,
          !.exclusive_minimum = min.exclusive,
          !.maximum = max.bound,
          !.exclusive_maximum = max.exclusive,
          !.min_properties = load_usize(obj, "minProperties"),
          !.max_properties = load_usize(obj, "maxProperties"),
          !.required = IF HasKey(obj, "required") THEN to_strings(Get(obj, "required")) ELSE <<>>,
          !.min_items = load_usize(obj, "minItems"),
          !.max_items = load_usize(obj, "maxItems"),
          !.min_length = load_usize(obj, "minLength"),
          !.max_length = load_usize(obj, "maxLength")]

\* "dependentRequired": each key with the strings of its value.
load_dependent_required(obj) ==
    IF HasKey(obj, "dependentRequired") /\ Get(obj, "dependentRequired").t = "obj"
    THEN LET d == Get(obj, "dependentRequired").o
         IN [i \in 1..Len(d) |-> <<d[i][1], to_strings(d[i][2])>>]
    ELSE <<>>

\* The draft test with every keyword read in every draft.
draft_any(version, since) == TRUE

\* root.draft.version >= 6, 7, 2019, 2020 (lines 301, 307, 316, 332), and the
\* negation of root.draft.version < 2020 (line 268).
draft_allows(version, since) == version >= since

\* The sub-schema keywords of compile_one (lines 242-336), with the queue
\* threaded through the enqueue calls in the order the code makes them.
compile_applicators(s, q0, obj, loc, version) ==
    Bind(load_schema(q0, obj, loc, "not"), LAMBDA not :
    Bind(load_schema_arr(not.q, obj, loc, "allOf"), LAMBDA all_of :
    Bind(load_schema_arr(all_of.q, obj, loc, "anyOf"), LAMBDA any_of :
    Bind(load_schema_arr(any_of.q, obj, loc, "oneOf"), LAMBDA one_of :
    Bind(load_schema_map(one_of.q, obj, loc, "properties"), LAMBDA properties :
    Bind(load_additional(properties.q, obj, loc, "additionalProperties"), LAMBDA additional_properties :
    Bind(IF draft_allows(version, 2020)
         THEN [v |-> NoItems, add |-> NoAdditional, q |-> additional_properties.q]
         ELSE IF HasKey(obj, "items") /\ Get(obj, "items").t = "arr"
         THEN Bind(load_schema_arr(additional_properties.q, obj, loc, "items"), LAMBDA arr :
              Bind(load_additional(arr.q, obj, loc, "additionalItems"), LAMBDA add :
                   [v |-> ItemsSchemaRefs(arr.v), add |-> add.v, q |-> add.q]))
         ELSE Bind(load_schema(additional_properties.q, obj, loc, "items"), LAMBDA one :
                   [v |-> IF one.v.some THEN ItemsSchemaRef(one.v.v) ELSE NoItems,
                    add |-> NoAdditional, q |-> one.q]),
         LAMBDA items :
    Bind(IF HasKey(obj, "dependencies") /\ Get(obj, "dependencies").t = "obj"
         THEN load_dependencies(items.q, Get(obj, "dependencies").o, loc)
         ELSE [v |-> <<>>, q |-> items.q], LAMBDA dependencies :
    Bind(IF draft_allows(version, 6) THEN load_schema(dependencies.q, obj, loc, "propertyNames")
         ELSE [v |-> None, q |-> dependencies.q], LAMBDA property_names :
    Bind(IF draft_allows(version, 6) THEN load_schema(property_names.q, obj, loc, "contains")
         ELSE [v |-> None, q |-> property_names.q], LAMBDA contains :
    Bind(IF draft_allows(version, 7) THEN load_schema(contains.q, obj, loc, "if")
         ELSE [v |-> None, q |-> contains.q], LAMBDA if_ :
    Bind(IF if_.v.some THEN load_schema(if_.q, obj, loc, "then")
         ELSE [v |-> None, q |-> if_.q], LAMBDA then :
    Bind(IF if_.v.some THEN load_schema(then.q, obj, loc, "else")
         ELSE [v |-> None, q |-> then.q], LAMBDA else_ :
    Bind(IF draft_allows(version, 2019) THEN load_schema_map(else_.q, obj, loc, "dependentSchemas")
         ELSE [v |-> <<>>, q |-> else_.q], LAMBDA dependent_schemas :
    Bind(IF draft_allows(version, 2020) THEN load_schema_arr(dependent_schemas.q, obj, loc, "prefixItems")
         ELSE [v |-> <<>>, q |-> dependent_schemas.q], LAMBDA prefix_items :
    Bind(IF draft_allows(version, 2020) THEN load_schema(prefix_items.q, obj, loc, "items")
         ELSE [v |-> None, q |-> prefix_items.q], LAMBDA items2020 :
    [s |-> [s EXCEPT
              !.not = not.v, !.all_of = all_of.v, !.any_of = any_of.v, !.one_of = one_of.v,
              !.properties = properties.v,
              !.additional_properties = additional_properties.v,
              !.items = items.v, !.additional_items = items.add,
              !.dependencies = dependencies.v,
              !.property_names = property_names.v, !.contains = contains.v,
              !.if_ = if_.v, !.then = then.v, !.else_ = else_.v,
              !.min_contains =
                  IF draft_allows(version, 2019) /\ contains.v.some THEN load_usize(obj, "minContains") ELSE None,
              !.max_contains =
                  IF draft_allows(version, 2019) /\ contains.v.some THEN load_usize(obj, "maxContains") ELSE None,
              !.dependent_schemas = dependent_schemas.v,
              !.dependent_required =
                  IF draft_allows(version, 2019) THEN load_dependent_required(obj) ELSE <<>>,
              !.contains_marks_evaluated = (draft_allows(version, 2020)),
              !.prefix_items = prefix_items.v, !.items2020 = items2020.v],
     q |-> items2020.q]))))))))))))))))

\* compile_one without the return of lines 176-179: the siblings of "$ref" are
\* compiled in every draft.
compile_one_siblings(v, loc, url, q) ==
    LET s0 == SchemaNew(loc)
        version == DraftVersion(url)
    IN IF v.t # "obj" THEN [s |-> s0, q |-> q]
       ELSE LET obj == v.o
                hasRef == HasKey(obj, "$ref") /\ Get(obj, "$ref").t = "str"
                e == enqueue(q, JoinRef(url, Get(obj, "$ref").s))
                s1 == IF hasRef THEN [s0 EXCEPT !.ref_ = Some(e.idx)] ELSE s0
                q1 == IF hasRef THEN e.q ELSE q
            IN compile_applicators(compile_assertions(s1, obj), q1, obj, loc, version)

\* compile_one(schemas, v, loc, root, queue): the node for the sub-value v at
\* loc, and the queue after the locations of its sub-schemas were enqueued.
compile_one(v, loc, url, q) ==
    LET s0 == SchemaNew(loc)
        version == DraftVersion(url)
    IN IF v.t # "obj" THEN [s |-> s0, q |-> q]
       ELSE LET obj == v.o
                hasRef == HasKey(obj, "$ref") /\ Get(obj, "$ref").t = "str"
                e == enqueue(q, JoinRef(url, Get(obj, "$ref").s))
                s1 == IF hasRef THEN [s0 EXCEPT !.ref_ = Some(e.idx)] ELSE s0
                q1 == IF hasRef THEN e.q ELSE q
            IN IF hasRef /\ version < 2019 THEN [s |-> s1, q |-> q1]
               ELSE compile_applicators(compile_assertions(s1, obj), q1, obj, loc, version)

(***************************************************************************)
(* The validator (src/src/validator.rs).                                   *)
(*                                                                         *)
(* A Validator is the context c = [v, sch, scope, bool, vloc] of one node  *)
(* visit (the instance value, the node's index, the scope chain from the   *)
(* outermost scope to the visit's own, bool_result, the instance location) *)
(* and its mutable part st = [errors, uneval, crash, depth].  crash is ""   *)
(* or the way the visit aborted: "oob" when Schemas::get indexes past the  *)
(* list, "overflow" when the scope chain outgrows the stack; depth is the  *)
(* longest scope chain the visit built.                                    *)
(***************************************************************************)
\* The longest scope chain the call stack can hold.
StackLimit == 7

EmptyLoc == [url |-> "", hash |-> FALSE, ptr |-> <<>>]
EmptyUneval == [props |-> {}, items |-> {}]

\* The payload of an ErrorKind: numbers (got, want, indices), a url, names.
NoPayload == [d |-> <<>>, u |-> EmptyLoc, names |-> <<>>, names2 |-> <<>>]
Nums(d) == [NoPayload EXCEPT !.d = d]
Names(n) == [NoPayload EXCEPT !.names = n]

\* ValidationError {absolute_keyword_location {schema_url, keyword_path},
\* instance_location, kind, causes}
MkErr(kind, url, kw, iloc, pl) ==
    [kind |-> kind, url |-> url, kw |-> kw, iloc |-> iloc,
     d |-> pl.d, u |-> pl.u, names |-> pl.names, names2 |-> pl.names2, causes |-> <<>>]
NoErr == MkErr("", EmptyLoc, <<>>, <<>>, NoPayload)

\* Validator::error: in boolean-result mode an empty Group error.
error(c, kw, kind, pl) ==
    IF c.bool THEN MkErr("Group", EmptyLoc, <<>>, <<>>, NoPayload)
    ELSE MkErr(kind, list[c.sch + 1].loc, kw, c.vloc, pl)

\* Result<Uneval, ValidationError> of a node visit, with crash and depth.
OkR(uneval, depth) == [ok |-> TRUE, err |-> NoErr, uneval |-> uneval, crash |-> "", depth |-> depth]
ErrR(e, depth) == [ok |-> FALSE, err |-> e, uneval |-> EmptyUneval, crash |-> "", depth |-> depth]
CrashR(how, depth) == [ok |-> FALSE, err |-> NoErr, uneval |-> EmptyUneval, crash |-> how, depth |-> depth]

Max(a, b) == IF a >= b THEN a ELSE b
Min(a, b) == IF a <= b THEN a ELSE b

\* The caller's bookkeeping after a child visit r: crash and depth.
Absorb(st, r) ==
    [st EXCEPT !.crash = IF @ # "" THEN @ ELSE r.crash, !.depth = Max(@, r.depth)]
\* self.errors.extend(result.err()) / if let Err(e) = .. { self.errors.push(e) }
PushErr(st0, r0) ==
    Bind(st0, LAMBDA st : Bind(r0, LAMBDA r :
    IF r.ok \/ r.crash # "" THEN Absorb(st, r)
    ELSE [Absorb(st, r) EXCEPT !.errors = Append(@, r.err)]))
\* Validator::add_error
add_error(c, st, kw, kind, pl) == [st EXCEPT !.errors = Append(@, error(c, kw, kind, pl))]
\* Validator::add_errors
add_errors(c, st, errors, kw, kind) ==
    IF Len(errors) = 1 THEN [st EXCEPT !.errors = @ \o errors]
    ELSE [st EXCEPT !.errors = Append(@, [error(c, kw, kind, NoPayload) EXCEPT !.causes = errors])]

\* Uneval::from, Uneval::is_empty, Uneval::merge
Uneval_from(v, sch, caller_needs) ==
    [props |-> IF v.t = "obj" /\ ~sch.all_props_evaluated
                  /\ (caller_needs \/ sch.unevaluated_properties.some)
               THEN {v.o[i][1] : i \in 1..Len(v.o)} ELSE {},
     items |-> IF v.t = "arr" /\ ~sch.all_items_evaluated
                  /\ (caller_needs \/ sch.unevaluated_items.some)
               THEN 0..(Len(v.a) - 1) ELSE {}]
Uneval_is_empty(u) == u.props = {} /\ u.items = {}
\* merge that keeps what either set holds.
Uneval_merge_union(u, other) ==
    [props |-> u.props \cup other.props, items |-> u.items \cup other.items]

\* Uneval::merge: retain what the other set holds too.
Uneval_merge(u, other) ==
    [props |-> {p \in u.props : p \in other.props},
     items |-> {i \in u.items : i \in other.items}]

\* Scope::child
Scope_child(sch, ref_kw, vid) == [sch |-> sch, ref_kw |-> ref_kw, vid |-> vid]

\* check_cycle that finds no ancestor.
NoCycleCheck(scope) == 0

\* check_cycle that walks the whole chain: the nearest ancestor with the
\* schema of the last scope, whatever its vid.
check_cycle_any_vid(scope) ==
    LET same == {i \in 1..(Len(scope) - 1) : scope[i].sch = scope[Len(scope)].sch}
    IN IF same = {} THEN 0 ELSE CHOOSE i \in same : \A j \in same : j <= i

\* Scope::check_cycle: the position in the chain of the nearest ancestor of
\* the last scope with its vid and its schema, 0 when there is none; the
\* walk stops at the first ancestor with another vid.
RECURSIVE check_cycle_from(_, _)
check_cycle_from(scope, i) ==
    IF i = 0 THEN 0
    ELSE IF scope[i].vid # scope[Len(scope)].vid THEN 0
    ELSE IF scope[i].sch = scope[Len(scope)].sch THEN i
    ELSE check_cycle_from(scope, i - 1)
check_cycle(scope) == check_cycle_from(scope, Len(scope) - 1)

\* Validator::kw_loc: the keyword path from the root scope to scope n, each
\* step its ref_kw or the tail of its location past its parent's.
RECURSIVE kw_loc(_, _)
kw_loc(scope, n) ==
    IF n <= 1 THEN <<>>
    ELSE kw_loc(scope, n - 1) \o
         (IF scope[n].ref_kw # "" THEN <<scope[n].ref_kw>>
          ELSE LET cur == list[scope[n].sch + 1].loc.ptr
                   parent == list[scope[n - 1].sch + 1].loc.ptr
               IN SubSeq(cur, Len(parent) + 1, Len(cur)))

\* util::is_integer: every number of the documents and the instances is
\* integer-valued and small, so as_f64 and the comparisons on it are exact.
is_integer(v) == v.t = "num"

\* The iteration order of a std HashMap or HashSet depends on the state of
\* its hasher, which is drawn when the collection is created; seed stands for
\* that state, and the two seeds give the key order and its reverse.
Reverse(f) == [i \in 1..Len(f) |-> f[Len(f) + 1 - i]]
hash_iter(f, seed) == IF seed THEN Reverse(f) ELSE f

\* deps_iter over a collection hashed anew by every validate call.
deps_iter_per_call(c, m) == hash_iter(m, c.seed)

\* for (prop, dependency) in &s.dependencies (and dependent_schemas,
\* dependent_required): the order of the node's own map.
deps_iter(c, m) == m

\* find_missing that reports nothing in boolean-result mode.
find_missing_bool_none(c, obj, required) ==
    LET missing == SelectSeq(required, LAMBDA p : ~HasKey(obj, p))
    IN IF missing = <<>> \/ c.bool THEN None
       ELSE [some |-> TRUE, v |-> missing]

\* Validator::find_missing: the required names obj lacks; in boolean-result
\* mode an empty list stands for any number of them.
find_missing(c, obj, required) ==
    LET missing == SelectSeq(required, LAMBDA p : ~HasKey(obj, p))
    IN IF missing = <<>> THEN None
       ELSE IF c.bool THEN [some |-> TRUE, v |-> <<>>]
       ELSE [some |-> TRUE, v |-> missing]

\* str.chars().count(): the strings of the instances hold one-unit characters.
chars_count(str) == Len(str)

RECURSIVE validate(_, _), validate_val(_, _, _, _), validate_self_(_, _, _, _, _),
          validate_ref(_, _, _, _), val_each(_, _, _),
          obj_names_loop(_, _, _), obj_deps_loop(_, _, _), obj_depsch_loop(_, _, _),
          obj_depreq_loop(_, _, _), obj_props_loop(_, _, _), obj_validate(_, _),
          contains_loop(_, _, _, _, _), arr_validate(_, _),
          refs_validate(_, _), refs_recursive(_, _), refs_dynamic(_, _),
          allof_loop(_, _, _, _), anyof_loop(_, _, _, _, _), oneof_loop(_, _, _, _, _),
          cond_not(_, _), cond_allOf(_, _), cond_anyOf(_, _), cond_oneOf(_, _),
          cond_if(_, _), cond_validate(_, _), uneval_validate(_, _),
          validate_by_type(_, _), validate_applicators(_, _)

\* Validator::validate_val: sch on the sub-value v, in a scope with a new vid.
validate_val(c, sch, v, vloc) ==
    IF sch >= Len(list) THEN CrashR("oob", Len(c.scope))
    ELSE IF Len(c.scope) >= StackLimit THEN CrashR("overflow", Len(c.scope))
    ELSE validate([v |-> v, sch |-> sch,
                   scope |-> Append(c.scope, Scope_child(sch, "", c.scope[Len(c.scope)].vid + 1)),
                   bool |-> c.bool, vloc |-> vloc, seed |-> c.seed],
                  Uneval_from(v, list[sch + 1], FALSE))

\* Validator::_validate_self: sch on the same value, in a scope with the
\* same vid; the reply of a successful visit is merged into self.uneval.
validate_self_(c, st0, sch, ref_kw, bool_result) ==
    Bind(st0, LAMBDA st :
    Bind(IF sch >= Len(list) THEN CrashR("oob", Len(c.scope))
         ELSE IF Len(c.scope) >= StackLimit THEN CrashR("overflow", Len(c.scope))
         ELSE validate([v |-> c.v, sch |-> sch,
                        scope |-> Append(c.scope, Scope_child(sch, ref_kw, c.scope[Len(c.scope)].vid)),
                        bool |-> c.bool \/ bool_result, vloc |-> c.vloc, seed |-> c.seed],
                       Uneval_from(c.v, list[sch + 1], ~Uneval_is_empty(st.uneval))),
         LAMBDA r :
    [r |-> r,
     st |-> IF r.ok THEN [Absorb(st, r) EXCEPT !.uneval = Uneval_merge(@, r.uneval)]
            ELSE Absorb(st, r)]))

\* validate_ref that returns the target's failure as it is.
validate_ref_bare(c, st, sch, kw) == validate_self_(c, st, sch, kw, FALSE)

\* Validator::validate_ref: the target's failure wrapped in Reference{url}.
validate_ref(c, st, sch, kw) ==
    Bind(validate_self_(c, st, sch, kw, FALSE), LAMBDA x :
    IF x.r.ok \/ x.r.crash # "" THEN x
    ELSE [r |-> ErrR([error(c, <<kw>>, "Reference", [NoPayload EXCEPT !.u = list[sch + 1].loc])
                      EXCEPT !.causes = IF x.r.err.kind = "Group" THEN x.r.err.causes
                                        ELSE <<x.r.err>>],
                     x.r.depth),
          st |-> x.st])

\* add_err!(self.validate_val(..)) over a sequence of [sch, v, vloc].
val_each(c, st0, todo0) ==
    Bind(st0, LAMBDA st : Bind(todo0, LAMBDA todo :
    IF todo = <<>> \/ st.crash # "" THEN st
    ELSE val_each(c, PushErr(st, validate_val(c, todo[1].sch, todo[1].v, todo[1].vloc)),
                  Tail(todo))))

\* obj_validate, propertyNames: each name as a string value.
obj_names_loop(c, st0, i) ==
    Bind(st0, LAMBDA st :
    IF i > Len(c.v.o) \/ st.crash # "" THEN st
    ELSE obj_names_loop(c, PushErr(st, validate_val(c, list[c.sch + 1].property_names.v,
                                                    JStr(c.v.o[i][1]), c.vloc)), i + 1))

\* obj_validate, dependencies.
obj_deps_loop(c, st0, i) ==
    Bind(st0, LAMBDA st :
    LET deps == deps_iter(c, list[c.sch + 1].dependencies) IN
    IF i > Len(deps) \/ st.crash # "" THEN st
    ELSE IF ~HasKey(c.v.o, deps[i][1]) THEN obj_deps_loop(c, st, i + 1)
    ELSE IF deps[i][2].tag = "props"
    THEN LET missing == find_missing(c, c.v.o, deps[i][2].props)
         IN obj_deps_loop(c, IF missing.some
                             THEN add_error(c, st, <<"dependencies", deps[i][1]>>, "Dependency",
                                            [Names(missing.v) EXCEPT !.names2 = <<deps[i][1]>>])
                             ELSE st, i + 1)
    ELSE Bind(validate_self_(c, st, deps[i][2].idx, "", FALSE), LAMBDA x :
              obj_deps_loop(c, PushErr(x.st, x.r), i + 1)))

\* obj_validate, dependentSchemas.
obj_depsch_loop(c, st0, i) ==
    Bind(st0, LAMBDA st :
    LET deps == deps_iter(c, list[c.sch + 1].dependent_schemas) IN
    IF i > Len(deps) \/ st.crash # "" THEN st
    ELSE IF ~HasKey(c.v.o, deps[i][1]) THEN obj_depsch_loop(c, st, i + 1)
    ELSE Bind(validate_self_(c, st, deps[i][2], "", FALSE), LAMBDA x :
              obj_depsch_loop(c, PushErr(x.st, x.r), i + 1)))

\* obj_validate, dependentRequired.
obj_depreq_loop(c, st0, i) ==
    Bind(st0, LAMBDA st :
    LET deps == deps_iter(c, list[c.sch + 1].dependent_required) IN
    IF i > Len(deps) THEN st
    ELSE LET missing == find_missing(c, c.v.o, deps[i][2])
         IN obj_depreq_loop(c, IF HasKey(c.v.o, deps[i][1]) /\ missing.some
                               THEN add_error(c, st, <<"dependentRequired", deps[i][1]>>,
                                              "DependentRequired",
                                              [Names(missing.v) EXCEPT !.names2 = <<deps[i][1]>>])
                               ELSE st, i + 1))

\* obj_validate, the loop over the properties of the instance (lines 290-335).
obj_props_loop(c, st0, i) ==
    Bind(st0, LAMBDA st :
    IF i > Len(c.v.o) \/ st.crash # "" THEN st
    ELSE IF c.bool /\ st.errors # <<>> THEN st
    ELSE LET s == list[c.sch + 1]
             pname == c.v.o[i][1]
             pvalue == c.v.o[i][2]
             vloc == Append(c.vloc, pname)
             inProps == HasKey(s.properties, pname)
             add == s.additional_properties
         IN Bind(IF inProps THEN validate_val(c, Get(s.properties, pname), pvalue, vloc)
                 ELSE CrashR("", 0), LAMBDA r1 :
            Bind(IF inProps THEN PushErr(st, r1) ELSE st, LAMBDA st1 :
            LET evaluated1 == inProps /\ r1.ok
                st2 == IF evaluated1 \/ st1.crash # "" THEN st1
                       ELSE CASE add.tag = "bool" ->
                                   IF ~add.b
                                   THEN add_error(c, st1, <<"additionalProperties">>,
                                                  "AdditionalProperty", Names(<<pname>>))
                                   ELSE st1
                              [] add.tag = "ref" ->
                                   PushErr(st1, validate_val(c, add.idx, pvalue, vloc))
                              [] OTHER -> st1
                evaluated == evaluated1 \/ add.tag # "none"
            IN obj_props_loop(c, IF evaluated THEN [st2 EXCEPT !.uneval.props = @ \ {pname}]
                                 ELSE st2, i + 1))))

\* Validator::obj_validate
obj_validate(c, st) ==
    LET s == list[c.sch + 1]
        obj == c.v.o
        a1 == IF s.min_properties.some /\ Len(obj) < s.min_properties.v
              THEN add_error(c, st, <<"minProperties">>, "MinProperties",
                             Nums(<<Len(obj), s.min_properties.v>>))
              ELSE st
        a2 == IF s.max_properties.some /\ Len(obj) > s.max_properties.v
              THEN add_error(c, a1, <<"maxProperties">>, "MaxProperties",
                             Nums(<<Len(obj), s.max_properties.v>>))
              ELSE a1
        missing == find_missing(c, obj, s.required)
    IN Bind(IF s.property_names.some THEN obj_names_loop(c, a2, 1) ELSE a2, LAMBDA a3 :
       Bind(IF missing.some /\ a3.crash = ""
            THEN add_error(c, a3, <<"required">>, "Required", Names(missing.v))
            ELSE a3, LAMBDA a4 :
       IF a4.crash # "" \/ (c.bool /\ a4.errors # <<>>) THEN a4
       ELSE obj_props_loop(c, obj_depreq_loop(c, obj_depsch_loop(c, obj_deps_loop(c, a4, 1), 1), 1), 1)))

\* arr_validate, contains: the matched indices and the errors of the rest.
contains_loop(c, st0, i, matched, errs) ==
    Bind(st0, LAMBDA st :
    IF i >= Len(c.v.a) \/ st.crash # "" THEN [st |-> st, matched |-> matched, errs |-> errs]
    ELSE LET s == list[c.sch + 1] IN
         Bind(validate_val(c, s.contains.v, c.v.a[i + 1], Append(c.vloc, ToStr(i))), LAMBDA r :
         IF r.ok
         THEN contains_loop(c, [Absorb(st, r) EXCEPT !.uneval.items =
                                    IF s.draft_version >= 2020 THEN @ \ {i} ELSE @],
                            i + 1, Append(matched, i), errs)
         ELSE contains_loop(c, Absorb(st, r), i + 1, matched,
                            IF r.crash = "" THEN Append(errs, r.err) ELSE errs)))

\* contains_count with minContains read as absent.
contains_count_default_min(c, cn0) ==
    Bind(cn0, LAMBDA cn :
    LET s == list[c.sch + 1]
        a4 == IF s.contains.some /\ cn.matched = <<>>
              THEN [cn.st EXCEPT !.errors = Append(@,
                       [error(c, <<"contains">>, "Contains", NoPayload)
                        EXCEPT !.causes = cn.errs])]
              ELSE cn.st
    IN IF s.max_contains.some /\ Len(cn.matched) > s.max_contains.v
       THEN add_error(c, a4, <<"maxContains">>, "MaxContains",
                      Nums(cn.matched \o <<s.max_contains.v>>))
       ELSE a4)

\* arr_validate, minContains and maxContains (lines 448-466) on the matched
\* indices and the errors cn that the contains loop left.
contains_count(c, cn0) ==
    Bind(cn0, LAMBDA cn :
    LET s == list[c.sch + 1]
        a4 == IF s.min_contains.some
              THEN (IF Len(cn.matched) < s.min_contains.v
                    THEN [cn.st EXCEPT !.errors = Append(@,
                             [error(c, <<"minContains">>, "MinContains",
                                    Nums(cn.matched \o <<s.min_contains.v>>))
                              EXCEPT !.causes = cn.errs])]
                    ELSE cn.st)
              ELSE IF s.contains.some /\ cn.matched = <<>>
                   THEN [cn.st EXCEPT !.errors = Append(@,
                            [error(c, <<"contains">>, "Contains", NoPayload)
                             EXCEPT !.causes = cn.errs])]
                   ELSE cn.st
    IN IF s.max_contains.some /\ Len(cn.matched) > s.max_contains.v
       THEN add_error(c, a4, <<"maxContains">>, "MaxContains",
                      Nums(cn.matched \o <<s.max_contains.v>>))
       ELSE a4)

\* Validator::arr_validate
arr_validate(c, st) ==
    LET s == list[c.sch + 1]
        arr == c.v.a
        len == Len(arr)
        Item(sch, i, tok) == [sch |-> sch, v |-> arr[i + 1], vloc |-> Append(c.vloc, ToStr(tok))]
        a1 == IF s.min_items.some /\ len < s.min_items.v
              THEN add_error(c, st, <<"minItems">>, "MinItems", Nums(<<len, s.min_items.v>>))
              ELSE st
        a2 == IF s.max_items.some /\ len > s.max_items.v
              THEN add_error(c, a1, <<"maxItems">>, "MaxItems", Nums(<<len, s.max_items.v>>))
              ELSE a1
        \* draft_version < 2020: items, additionalItems
        evaluated == CASE s.items.tag = "ref" -> len
                       [] s.items.tag = "refs" -> Min(Len(s.items.list), len)
                       [] OTHER -> 0
        b1 == CASE s.items.tag = "ref" ->
                     val_each(c, a2, [k \in 1..len |-> Item(s.items.idx, k - 1, k - 1)])
                [] s.items.tag = "refs" ->
                     val_each(c, [a2 EXCEPT !.uneval.items = @ \ (0..(evaluated - 1))],
                              [k \in 1..evaluated |-> Item(s.items.list[k], k - 1, k - 1)])
                [] OTHER -> a2
        add == s.additional_items
        b2 == CASE add.tag = "bool" ->
                     IF ~add.b /\ evaluated # len
                     THEN add_error(c, b1, <<"additionalItems">>, "AdditionalItems",
                                    Nums(<<len - evaluated>>))
                     ELSE b1
                [] add.tag = "ref" ->
                     val_each(c, b1, [k \in 1..(len - evaluated) |->
                                         Item(add.idx, evaluated + k - 1, k - 1)])
                [] OTHER -> b1
        \* draft_version >= 2020: prefixItems, items2020
        npre == Min(Len(s.prefix_items), len)
        p1 == val_each(c, [a2 EXCEPT !.uneval.items = @ \ (0..(npre - 1))],
                       [k \in 1..npre |-> Item(s.prefix_items[k], k - 1, k - 1)])
        p2 == IF s.items2020.some
              THEN val_each(c, p1, [k \in 1..(len - npre) |->
                                       Item(s.items2020.v, npre + k - 1, k - 1)])
              ELSE p1
    IN Bind(IF s.draft_version < 2020 THEN b2 ELSE p2, LAMBDA a3 :
       contains_count(c, IF s.contains.some THEN contains_loop(c, a3, 0, <<>>, <<>>)
                         ELSE [st |-> a3, matched |-> <<>>, errs |-> <<>>]))

\* str_validate with maxLength violated at the limit already.
str_validate_at_limit(c, st) ==
    LET s == list[c.sch + 1]
        len == chars_count(c.v.s)
        a1 == IF s.min_length.some /\ len < s.min_length.v
              THEN add_error(c, st, <<"minLength">>, "MinLength", Nums(<<len, s.min_length.v>>))
              ELSE st
    IN IF s.max_length.some /\ len >= s.max_length.v
       THEN add_error(c, a1, <<"maxLength">>, "MaxLength", Nums(<<len, s.max_length.v>>))
       ELSE a1

\* Validator::str_validate (minLength, maxLength)
str_validate(c, st) ==
    LET s == list[c.sch + 1]
        len == chars_count(c.v.s)
        a1 == IF s.min_length.some /\ len < s.min_length.v
              THEN add_error(c, st, <<"minLength">>, "MinLength", Nums(<<len, s.min_length.v>>))
              ELSE st
    IN IF s.max_length.some /\ len > s.max_length.v
       THEN add_error(c, a1, <<"maxLength">>, "MaxLength", Nums(<<len, s.max_length.v>>))
       ELSE a1

\* Validator::num_validate (minimum, maximum, exclusiveMinimum, exclusiveMaximum)
num_validate(c, st) ==
    LET s == list[c.sch + 1]
        num == c.v.n
        a1 == IF s.minimum.some /\ num < s.minimum.v
              THEN add_error(c, st, <<"minimum">>, "Minimum", Nums(<<num, s.minimum.v>>))
              ELSE st
        a2 == IF s.maximum.some /\ num > s.maximum.v
              THEN add_error(c, a1, <<"maximum">>, "Maximum", Nums(<<num, s.maximum.v>>))
              ELSE a1
        a3 == IF s.exclusive_minimum.some /\ num <= s.exclusive_minimum.v
              THEN add_error(c, a2, <<"exclusiveMinimum">>, "ExclusiveMinimum",
                             Nums(<<num, s.exclusive_minimum.v>>))
              ELSE a2
    IN IF s.exclusive_maximum.some /\ num >= s.exclusive_maximum.v
       THEN add_error(c, a3, <<"exclusiveMaximum">>, "ExclusiveMaximum",
                      Nums(<<num, s.exclusive_maximum.v>>))
       ELSE a3

\* Validator::resolve_recursive_anchor: the schema of the outermost scope
\* whose resource has recursive_anchor set.
resolve_recursive_anchor(c) ==
    LET hits == {i \in 1..Len(c.scope) :
                    list[list[c.scope[i].sch + 1].resource + 1].recursive_anchor}
    IN IF hits = {} THEN None
       ELSE Some(c.scope[CHOOSE i \in hits : \A j \in hits : i <= j].sch)

\* Validator::resolve_dynamic_anchor: the schema registered for name by
\* the outermost scope whose resource exposes the dynamic anchor name.
resolve_dynamic_anchor(c, name) ==
    LET hits == {i \in 1..Len(c.scope) :
                    HasKey(list[list[c.scope[i].sch + 1].resource + 1].dynamic_anchors, name)}
        outer == CHOOSE i \in hits : \A j \in hits : i <= j
    IN IF hits = {} THEN None
       ELSE Some(Get(list[list[c.scope[outer].sch + 1].resource + 1].dynamic_anchors, name))

\* refs_validate, $dynamicRef (lines 608-619)
refs_dynamic(c, st0) ==
    Bind(st0, LAMBDA st :
    LET dref == list[c.sch + 1].dynamic_ref
        res == resolve_dynamic_anchor(c, dref.anchor.v)
        sch == IF dref.anchor.some /\ list[dref.sch + 1].dynamic_anchor = dref.anchor /\ res.some
               THEN res.v ELSE dref.sch
    IN IF dref.some /\ st.crash = ""
       THEN (IF dref.sch >= Len(list) THEN [st EXCEPT !.crash = "oob"]
             ELSE Bind(validate_ref(c, st, sch, "$dynamicRef"), LAMBDA x : PushErr(x.st, x.r)))
       ELSE st)

\* refs_validate, $recursiveRef (lines 600-606)
refs_recursive(c, st0) ==
    Bind(st0, LAMBDA st :
    LET s == list[c.sch + 1]
        sch0 == s.recursive_ref.v
        res == resolve_recursive_anchor(c)
        sch == IF list[sch0 + 1].recursive_anchor /\ res.some THEN res.v ELSE sch0
    IN IF s.recursive_ref.some /\ st.crash = ""
       THEN (IF sch0 >= Len(list) THEN [st EXCEPT !.crash = "oob"]
             ELSE Bind(validate_ref(c, st, sch, "$recursiveRef"), LAMBDA x : PushErr(x.st, x.r)))
       ELSE st)

\* Validator::refs_validate
refs_validate(c, st) == refs_dynamic(c, refs_recursive(c, st))

\* cond_validate, allOf: the errors of the branches, up to the first one in
\* boolean-result mode.
allof_loop(c, st0, i, errs) ==
    Bind(st0, LAMBDA st :
    LET all_of == list[c.sch + 1].all_of IN
    IF i > Len(all_of) \/ st.crash # "" THEN [st |-> st, errs |-> errs]
    ELSE Bind(validate_self_(c, st, all_of[i], "", FALSE), LAMBDA x :
         IF x.r.ok \/ x.r.crash # "" THEN allof_loop(c, x.st, i + 1, errs)
         ELSE IF c.bool THEN [st |-> x.st, errs |-> Append(errs, x.r.err)]
         ELSE allof_loop(c, x.st, i + 1, Append(errs, x.r.err))))

\* cond_validate, anyOf: stops at a match once the unevaluated set is empty.
anyof_loop(c, st0, i, matched, errs) ==
    Bind(st0, LAMBDA st :
    LET any_of == list[c.sch + 1].any_of IN
    IF i > Len(any_of) \/ st.crash # "" THEN [st |-> st, matched |-> matched, errs |-> errs]
    ELSE Bind(validate_self_(c, st, any_of[i], "", FALSE), LAMBDA x :
         IF x.r.crash # "" THEN [st |-> x.st, matched |-> matched, errs |-> errs]
         ELSE IF x.r.ok
         THEN (IF Uneval_is_empty(x.st.uneval)
               THEN [st |-> x.st, matched |-> TRUE, errs |-> errs]
               ELSE anyof_loop(c, x.st, i + 1, TRUE, errs))
         ELSE anyof_loop(c, x.st, i + 1, matched, Append(errs, x.r.err))))

\* cond_validate, oneOf: i counts the branches from 0; matched is the index
\* of the first branch that accepted.
oneof_loop(c, st0, i, matched, errs) ==
    Bind(st0, LAMBDA st :
    LET one_of == list[c.sch + 1].one_of IN
    IF i >= Len(one_of) \/ st.crash # "" THEN [st |-> st, matched |-> matched, errs |-> errs]
    ELSE Bind(validate_self_(c, st, one_of[i + 1], "", matched.some), LAMBDA x :
         IF x.r.crash # "" THEN [st |-> x.st, matched |-> matched, errs |-> errs]
         ELSE IF ~x.r.ok
         THEN oneof_loop(c, x.st, i + 1, matched,
                         IF matched.some THEN errs ELSE Append(errs, x.r.err))
         ELSE IF ~matched.some THEN oneof_loop(c, x.st, i + 1, Some(i), errs)
         ELSE oneof_loop(c, add_error(c, x.st, <<"oneOf">>, "OneOf", Nums(<<matched.v, i>>)),
                         i + 1, matched, errs)))

\* cond_validate, not (lines 688-693)
cond_not(c, st0) ==
    Bind(st0, LAMBDA st :
    LET s == list[c.sch + 1] IN
    IF s.not.some /\ st.crash = ""
    THEN Bind(validate_self_(c, st, s.not.v, "", TRUE), LAMBDA n :
              IF n.r.ok THEN add_error(c, n.st, <<"not">>, "Not", NoPayload) ELSE n.st)
    ELSE st)

\* cond_validate, allOf (lines 695-709)
cond_allOf(c, st0) ==
    Bind(st0, LAMBDA a1 :
    IF list[c.sch + 1].all_of # <<>>
    THEN Bind(allof_loop(c, a1, 1, <<>>), LAMBDA all :
              IF all.errs # <<>> THEN add_errors(c, all.st, all.errs, <<"allOf">>, "AllOf")
              ELSE all.st)
    ELSE a1)

\* cond_validate, anyOf (lines 711-730)
cond_anyOf(c, st0) ==
    Bind(st0, LAMBDA a2 :
    IF list[c.sch + 1].any_of # <<>>
    THEN Bind(anyof_loop(c, a2, 1, FALSE, <<>>), LAMBDA any :
              IF ~any.matched /\ any.st.crash = ""
              THEN add_errors(c, any.st, any.errs, <<"anyOf">>, "AnyOf")
              ELSE any.st)
    ELSE a2)

\* cond_oneOf without the error for no matching branch.
cond_oneOf_lenient(c, st0) ==
    Bind(st0, LAMBDA a3 :
    IF list[c.sch + 1].one_of # <<>> THEN oneof_loop(c, a3, 0, None, <<>>).st ELSE a3)

\* cond_validate, oneOf (lines 732-754)
cond_oneOf(c, st0) ==
    Bind(st0, LAMBDA a3 :
    IF list[c.sch + 1].one_of # <<>>
    THEN Bind(oneof_loop(c, a3, 0, None, <<>>), LAMBDA one :
              IF ~one.matched.some /\ one.st.crash = ""
              THEN add_errors(c, one.st, one.errs, <<"oneOf">>, "OneOf")
              ELSE one.st)
    ELSE a3)

\* cond_if with the error of a failing if kept in the node's error list.
cond_if_reported(c, st0) ==
    Bind(st0, LAMBDA a4 :
    LET s == list[c.sch + 1] IN
    IF ~s.if_.some \/ a4.crash # "" THEN a4
    ELSE Bind(validate_self_(c, a4, s.if_.v, "", TRUE), LAMBDA i :
         IF i.r.crash # "" THEN i.st
         ELSE IF i.r.ok
         THEN (IF s.then.some
               THEN Bind(validate_self_(c, i.st, s.then.v, "", FALSE), LAMBDA t :
                         PushErr(t.st, t.r))
               ELSE i.st)
         ELSE (IF s.else_.some
               THEN Bind(validate_self_(c, PushErr(i.st, i.r), s.else_.v, "", FALSE), LAMBDA e :
                         PushErr(e.st, e.r))
               ELSE PushErr(i.st, i.r))))

\* cond_validate, if / then / else (lines 756-765)
cond_if(c, st0) ==
    Bind(st0, LAMBDA a4 :
    LET s == list[c.sch + 1] IN
    IF ~s.if_.some \/ a4.crash # "" THEN a4
    ELSE Bind(validate_self_(c, a4, s.if_.v, "", TRUE), LAMBDA i :
         IF i.r.crash # "" THEN i.st
         ELSE IF i.r.ok
         THEN (IF s.then.some
               THEN Bind(validate_self_(c, i.st, s.then.v, "", FALSE), LAMBDA t :
                         PushErr(t.st, t.r))
               ELSE i.st)
         ELSE (IF s.else_.some
               THEN Bind(validate_self_(c, i.st, s.else_.v, "", FALSE), LAMBDA e :
                         PushErr(e.st, e.r))
               ELSE i.st)))

\* Validator::cond_validate
cond_validate(c, st) ==
    cond_if(c, cond_oneOf(c, cond_anyOf(c, cond_allOf(c, cond_not(c, st)))))

\* Validator::uneval_validate
uneval_validate(c, st0) ==
    Bind(st0, LAMBDA st :
    LET s == list[c.sch + 1]
        obj == c.v.o
        arr == c.v.a
        props == hash_iter(SelectSeq(obj, LAMBDA e : e[1] \in st.uneval.props), c.seed)
    IN Bind(IF s.unevaluated_properties.some /\ c.v.t = "obj"
            THEN [val_each(c, st, [k \in 1..Len(props) |->
                      [sch |-> s.unevaluated_properties.v, v |-> props[k][2],
                       vloc |-> Append(c.vloc, props[k][1])]])
                  EXCEPT !.uneval.props = {}]
            ELSE st, LAMBDA a1 :
       LET idxs == hash_iter(SelectSeq([k \in 1..Len(arr) |-> k - 1],
                                       LAMBDA i : i \in a1.uneval.items), c.seed)
       IN IF s.unevaluated_items.some /\ c.v.t = "arr"
          THEN [val_each(c, a1, [k \in 1..Len(idxs) |->
                    [sch |-> s.unevaluated_items.v, v |-> arr[idxs[k] + 1],
                     vloc |-> Append(c.vloc, ToStr(idxs[k]))]])
                EXCEPT !.uneval.items = {}]
          ELSE a1))

\* validate, the type specific validations (lines 175-181)
validate_by_type(c, st0) ==
    Bind(st0, LAMBDA st1 :
    IF st1.crash # "" THEN st1
    ELSE CASE c.v.t = "obj" -> obj_validate(c, st1)
           [] c.v.t = "arr" -> arr_validate(c, st1)
           [] c.v.t = "str" -> str_validate(c, st1)
           [] c.v.t = "num" -> num_validate(c, st1)
           [] OTHER -> st1)

\* validate, refs_validate, cond_validate and uneval_validate unless an
\* error ends a boolean-result visit (lines 183-191)
validate_applicators(c, st0) ==
    Bind(st0, LAMBDA st2 :
    LET s == list[c.sch + 1] IN
    IF st2.crash = "" /\ (~c.bool \/ st2.errors = <<>>)
    THEN Bind(cond_validate(c, IF s.draft_version >= 2019 THEN refs_validate(c, st2) ELSE st2),
              LAMBDA cd :
              IF s.draft_version >= 2019 /\ cd.errors = <<>> /\ cd.crash = ""
              THEN uneval_validate(c, cd) ELSE cd)
    ELSE st2)

\* validate, the result from self.errors (lines 193-201)
validate_result(c, st0) ==
    Bind(st0, LAMBDA st3 :
    IF st3.crash # "" THEN CrashR(st3.crash, st3.depth)
    ELSE CASE Len(st3.errors) = 0 -> OkR(st3.uneval, st3.depth)
           [] Len(st3.errors) = 1 -> ErrR(st3.errors[1], st3.depth)
           [] OTHER -> ErrR([error(c, <<>>, "Group", NoPayload) EXCEPT !.causes = st3.errors],
                            st3.depth))

\* Validator::validate: one node visit.
validate(c0, uneval0) ==
    Bind(c0, LAMBDA c : Bind(uneval0, LAMBDA uneval :
    LET s == list[c.sch + 1]
        v == c.v
        depth == Len(c.scope)
        cyc == check_cycle(c.scope)
        st0 == [errors |-> <<>>, uneval |-> uneval, crash |-> "", depth |-> depth]
    IN IF s.boolean.some
       THEN (IF s.boolean.v THEN OkR(uneval, depth)
             ELSE ErrR(error(c, <<>>, "FalseSchema", NoPayload), depth))
       ELSE IF cyc # 0
       THEN ErrR(error(c, <<>>, "RefCycle",
                       [d |-> <<>>, u |-> s.loc, names |-> kw_loc(c.scope, Len(c.scope)),
                        names2 |-> kw_loc(c.scope, cyc)]), depth)
       ELSE IF s.types # {} /\ ~(Type_of(v) \in s.types \/ ("integer" \in s.types /\ is_integer(v)))
       THEN ErrR(error(c, <<"type">>, "Type", Names(<<Type_of(v)>>)), depth)
       ELSE IF s.enum_.some /\ (Type_of(v) \notin s.enum_.types
                                \/ ~\E i \in 1..Len(s.enum_.values) : s.enum_.values[i] = v)
       THEN ErrR(error(c, <<"enum">>, "Enum", NoPayload), depth)
       ELSE IF s.constant.some /\ v # s.constant.v
       THEN ErrR(error(c, <<"const">>, "Const", NoPayload), depth)
       ELSE IF ~s.ref_.some
       THEN validate_result(c, validate_applicators(c, validate_by_type(c, st0)))
       ELSE IF s.ref_.v >= Len(list) THEN CrashR("oob", depth)
       ELSE Bind(validate_ref(c, st0, s.ref_.v, "$ref"), LAMBDA ref :
            IF s.draft_version < 2019
            THEN (IF ref.r.crash # "" THEN CrashR(ref.r.crash, ref.st.depth)
                  ELSE IF ref.r.ok THEN OkR(ref.st.uneval, ref.st.depth)
                  ELSE ErrR(ref.r.err, ref.st.depth))
            ELSE validate_result(c, validate_applicators(c, validate_by_type(c,
                                        PushErr(ref.st, ref.r)))))))

\* validator::validate (lines 35-74), which Schemas::validate(v, idx) calls
\* with the node at idx: the root visit, its error under a Schema{url} error.
\* seed is the hasher state of the hash sets the call creates.
validator_validate(v, sch, seed) ==
    LET schema == list[sch + 1]
        e == MkErr("Schema", schema.loc, <<>>, <<>>, [NoPayload EXCEPT !.u = schema.loc])
    IN Bind(validate([v |-> v, sch |-> schema.idx, scope |-> <<Scope_child(schema.idx, "", 0)>>,
                      bool |-> FALSE, vloc |-> <<>>, seed |-> seed],
                     Uneval_from(v, schema, FALSE)), LAMBDA r :
       [called |-> TRUE, ok |-> r.ok, crash |-> r.crash, depth |-> r.depth,
        err |-> IF r.ok \/ r.crash # "" THEN NoErr
                ELSE [e EXCEPT !.causes = IF r.err.kind = "Group" THEN r.err.causes
                                          ELSE <<r.err>>]])

\* Schemas::validate(v, idx), one of the results the call can give.
SchemasValidate(v, sch) == validator_validate(v, sch, FALSE)

(***************************************************************************)
(* Compiler::add_resource and Compiler::compile.  compile borrows the      *)
(* compiler and the store for the whole call, so nothing else runs while   *)
(* pc = "loop".                                                            *)
(***************************************************************************)
\* The locations compile is called with.
CompileLocs ==
    {Bare("a"), Loc("a", <<"definitions", "x">>), Loc("b", <<>>),
     Loc("c", <<>>), Loc("c", <<"definitions", "e">>), Loc("c", <<"definitions", "i">>),
     Loc("c", <<"definitions", "r">>), Loc("d", <<>>)}

NoResult == [status |-> "none", idx |-> 0, kind |-> ""]
Ok(i) == [status |-> "ok", idx |-> i, kind |-> ""]
Err(k) == [status |-> "err", idx |-> 0, kind |-> k]

\* The instances Schemas::validate is called with.
Instances ==
    {JNum(4), JNum(5), JNum(6), JStr("ab"), JStr("abc"),
     JArr(<<JStr("ab")>>), JArr(<<JNum(5)>>), JArr(<<JNum(5), JNum(6)>>),
     JObj(<< <<"y", JNum(1)>> >>),
     JObj(<< <<"p", JObj(<< <<"y", JNum(1)>> >>)>>, <<"y", JNum(1)>> >>)}

\* No validate call since the last compile call: its input, its result.
NoInput == [called |-> FALSE, v |-> JNull, idx |-> 0]
NoValidation == [called |-> FALSE, ok |-> FALSE, crash |-> "", depth |-> 0, err |-> NoErr]

Init ==
    /\ roots = {}
    /\ list = <<>>
    /\ map = [l \in {} |-> 0]
    /\ queue = <<>>
    /\ pc = "idle"
    /\ sch_index = None
    /\ ret = NoResult
    /\ reqLoc = Loc("a", <<>>)
    /\ list0 = <<>>
    /\ done = <<>>
    /\ calls = 0
    /\ promised = <<>>
    /\ vin = NoInput
    /\ vout = NoValidation

\* add_resource(url, json): roots.or_insert
AddResource(url) ==
    /\ pc = "idle"
    /\ url \notin roots
    /\ Cardinality(roots) < MaxResources
    /\ roots' = roots \cup {url}
    /\ UNCHANGED <<list, map, queue, pc, sch_index, ret, reqLoc, list0, done, calls, promised, vin, vout>>

\* compile, lines 60-66: up to the first test of the while loop.
CompileBegin(loc) ==
    /\ pc = "idle"
    /\ calls < MaxCalls
    /\ calls' = calls + 1
    /\ queue' = <<EnsureFragment(loc)>>
    /\ sch_index' = None
    /\ pc' = "loop"
    /\ ret' = NoResult
    /\ reqLoc' = loc
    /\ list0' = list
    /\ done' = <<>>
    /\ vin' = NoInput
    /\ vout' = NoValidation
    /\ UNCHANGED <<roots, list, map, promised>>

\* The error return of compile: the call ends, its queue is dropped.
CompileFail(kind) ==
    /\ pc' = "idle"
    /\ ret' = Err(kind)
    /\ queue' = <<>>
    /\ UNCHANGED <<roots, list, map, sch_index, reqLoc, list0, done, calls, promised, vin, vout>>

\* compile, line 73: roots.or_load fails for a url that is not in the catalog
\* (no url loader is registered).
CompileLoadError ==
    /\ pc = "loop"
    /\ queue # <<>>
    /\ split(queue[1]).url \notin roots
    /\ CompileFail("UnsupportedUrl")

\* compile, lines 75-80: the pointer of the head location names no value.
CompileNotFound ==
    /\ pc = "loop"
    /\ queue # <<>>
    /\ split(queue[1]).url \in roots
    /\ ~lookup_ptr(Doc(split(queue[1]).url), split(queue[1]).ptr).some
    /\ CompileFail("NotFound")

\* pop_front as pop_back: the location taken from the other end.
pop_back(q) == [loc |-> q[Len(q)], rest |-> SubSeq(q, 1, Len(q) - 1)]

\* queue.pop_front(), lines 83-85: the location taken and the queue left.
pop_front(q) == [loc |-> Head(q), rest |-> Tail(q)]

\* StoreNode with the node put in front of the stored ones.
StoreNodeFront(loc, sch) ==
    [list |-> <<[sch EXCEPT !.idx = 0]>> \o list,
     map |-> [l \in DOMAIN map \cup {loc} |-> IF l = loc THEN 0 ELSE map[l] + 1],
     index |-> 0]

\* target.insert(loc, sch), line 86.
StoreNode(loc, sch) == insert(loc, sch)

\* FirstIndex as sch_index = Some(index): the index of the last node.
LastIndex(cur, index) == Some(index)

\* sch_index.or(Some(index)), line 87.
FirstIndex(cur, index) == IF cur.some THEN cur ELSE Some(index)

\* The maps compile_one builds for a node, each created with its own hasher
\* state; the node keeps that order for as long as it is stored.
hashed(sch, seed) ==
    [sch EXCEPT !.dependencies = hash_iter(@, seed),
                !.dependent_schemas = hash_iter(@, seed),
                !.dependent_required = hash_iter(@, seed)]

\* The indices held in the reference fields of a node.
SeqRange(f) == {f[i] : i \in 1..Len(f)}
OptSet(o) == IF o.some THEN {o.v} ELSE {}
RefIdxs(s) ==
    OptSet(s.ref_) \cup OptSet(s.not) \cup SeqRange(s.all_of) \cup SeqRange(s.any_of)
    \cup SeqRange(s.one_of) \cup {s.properties[i][2] : i \in 1..Len(s.properties)}
    \cup (IF s.additional_properties.tag = "ref" THEN {s.additional_properties.idx} ELSE {})
    \cup (IF s.items.tag = "ref" THEN {s.items.idx} ELSE SeqRange(s.items.list))
    \cup (IF s.additional_items.tag = "ref" THEN {s.additional_items.idx} ELSE {})
    \cup {s.dependencies[i][2].idx : i \in {j \in 1..Len(s.dependencies) : s.dependencies[j][2].tag = "ref"}}
    \cup OptSet(s.property_names) \cup OptSet(s.contains)
    \cup OptSet(s.if_) \cup OptSet(s.then) \cup OptSet(s.else_)
    \cup {s.dependent_schemas[i][2] : i \in 1..Len(s.dependent_schemas)}
    \cup SeqRange(s.prefix_items) \cup OptSet(s.items2020)

\* The location index i stands for while the head of q is being compiled: a
\* stored node's location, or the location queued at that future index.
LocAt(q, i) == IF i < Len(list) THEN list[i + 1].loc ELSE q[i - Len(list) + 1]

\* compile, lines 67-88: one pass of the loop body that reaches its end.  (The
\* values of the pass are bound by \E over one-element sets.)
CompileStep ==
    /\ pc = "loop"
    /\ queue # <<>>
    /\ split(queue[1]).url \in roots
    /\ \E loc \in {queue[1]} :
       \E v \in {lookup_ptr(Doc(split(loc).url), split(loc).ptr)} :
          /\ v.some
          /\ \E c \in {compile_one(v.v, loc, split(loc).url, queue)} :
             \E pop \in {pop_front(c.q)} :
             \E seed \in BOOLEAN :
             \E ins \in {StoreNode(pop.loc, hashed(c.s, seed))} :
                /\ list' = ins.list
                /\ map' = ins.map
                /\ queue' = pop.rest
                /\ sch_index' = FirstIndex(sch_index, ins.index)
                /\ done' = Append(done, loc)
                /\ promised' = Append(promised, {<<i, LocAt(c.q, i)>> : i \in RefIdxs(c.s)})
    /\ UNCHANGED <<roots, pc, ret, reqLoc, list0, calls, vin, vout>>

\* compile, line 89: the queue is empty.
CompileReturn ==
    /\ pc = "loop"
    /\ queue = <<>>
    /\ pc' = "idle"
    /\ ret' = IF sch_index.some THEN Ok(sch_index.v) ELSE Err("Bug")
    /\ UNCHANGED <<roots, list, map, queue, sch_index, reqLoc, list0, done, calls, promised, vin, vout>>

\* Schemas::validate(v, idx) with the index of a stored node.  The result
\* borrows the store and the instance; the caller holds one result at a time.
Validate(v, idx) ==
    /\ pc = "idle"
    /\ ~vin.called
    /\ idx < Len(list)
    /\ vin' = [called |-> TRUE, v |-> v, idx |-> idx]
    /\ \E seed \in BOOLEAN : vout' = validator_validate(v, idx, seed)
    /\ UNCHANGED <<roots, list, map, queue, pc, sch_index, ret, reqLoc, list0, done, calls, promised>>

\* The caller drops the Result<(), ValidationError<'s, 'v>> it holds.
DropResult ==
    /\ vin.called
    /\ vin' = NoInput
    /\ vout' = NoValidation
    /\ UNCHANGED <<roots, list, map, queue, pc, sch_index, ret, reqLoc, list0, done, calls, promised>>

Next ==
    \/ \E url \in DocUrls : AddResource(url)
    \/ \E loc \in CompileLocs : CompileBegin(loc)
    \/ CompileLoadError
    \/ CompileNotFound
    \/ CompileStep
    \/ CompileReturn
    \/ \E v \in Instances : \E idx \in 0..(Len(list) - 1) : Validate(v, idx)
    \/ DropResult

Spec == Init /\ [][Next]_vars

\* compile's loop runs to its end once the call is made: the call is synchronous.
FairSpec == Spec /\ WF_vars(CompileStep \/ CompileLoadError \/ CompileNotFound \/ CompileReturn)

(***************************************************************************)
(* Claims.                                                                 *)
(***************************************************************************)
NoDup(f) == \A i, j \in 1..Len(f) : f[i] = f[j] => i = j
StoredLocs(l) == {l[i].loc : i \in 1..Len(l)}

\* C1: between compile calls, successful or failed, every schema index held
\* in a reference field of a stored node is smaller than the number of stored
\* nodes, and the node stored at that index has the location that was
\* enqueued for it.
C1_RefsValid ==
    pc = "idle" =>
        \A k \in 1..Len(list) : \A p \in promised[k] :
            /\ p[1] \in RefIdxs(list[k])
            /\ p[1] < Len(list)
            /\ list[p[1] + 1].loc = p[2]

\* C2: when compile fails with a CompileError the store holds exactly the
\* nodes it held before the call.
C2_NoPartialOnError == ret.status = "err" => list = list0

\* C3: at most one stored node exists per canonical location
\* (absolute_url, json_pointer).
C3_OneNodePerLocation ==
    \A i, j \in 1..Len(list) : split(list[i].loc) = split(list[j].loc) => i = j

\* C5: compile only appends to the store: every stored node keeps its index
\* and all of its fields in every step.
C5_AppendOnly ==
    [][/\ Len(list') >= Len(list)
       /\ \A i \in 1..Len(list) : list'[i] = list[i]]_vars

\* C5 witness: a later compile call has added nodes to a store that held some.
C5_Witness == pc = "idle" /\ ret.status = "ok" /\ Len(list0) > 0 /\ Len(list) > Len(list0)

\* C4: a successful compile(target, location) returns the index of the first
\* node the call inserted, that node is the one compiled for the requested
\* location with a missing '#' appended, and validate with the returned index
\* accepts what the schema at that location accepts: a# only objects, and
\* {"y": 1} among them; c#/definitions/i ({"additionalProperties": false})
\* everything but the objects with a property; c#/definitions/e, which refers
\* to itself, nothing.
C4_ReturnsRequested ==
    (pc = "idle" /\ ret.status = "ok") =>
        /\ ret.idx = Len(list0)
        /\ ret.idx < Len(list)
        /\ list[ret.idx + 1].loc.hash
        /\ split(list[ret.idx + 1].loc) = split(reqLoc)
        /\ (vout.called /\ vin.idx = ret.idx) =>
              /\ split(reqLoc) = split(Loc("a", <<>>)) =>
                    /\ vout.ok => vin.v.t = "obj"
                    /\ vin.v = JObj(<< <<"y", JNum(1)>> >>) => vout.ok
              /\ reqLoc = Loc("c", <<"definitions", "i">>) =>
                    (vout.ok <=> ~(vin.v.t = "obj" /\ Len(vin.v.o) > 0))
              /\ reqLoc = Loc("c", <<"definitions", "e">>) => ~vout.ok

\* C4 witness: a second call, with a location that holds no '#', returned a
\* non-zero index and validate with that index rejected an instance.
C4_Witness ==
    /\ pc = "idle" /\ ret.status = "ok" /\ reqLoc = Bare("a") /\ ret.idx > 0
    /\ vout.called /\ vin.idx = ret.idx /\ ~vout.ok

\* C6: under the fairness of the synchronous call, compile terminates; during
\* a call no location is compiled twice and no location is in the queue twice
\* or again after it was compiled; and when the call succeeds the requested
\* location and every location a node of the call refers to were compiled
\* or were stored before the call.
C6_CompileOnceAndTerminates ==
    /\ [](NoDup(done \o queue))
    /\ []((pc = "idle" /\ ret.status = "ok") =>
             /\ done[1] = EnsureFragment(reqLoc)
             /\ Len(done) = Len(list) - Len(list0)
             /\ \A k \in (Len(list0) + 1)..Len(list) : \A p \in promised[k] :
                    p[2] \in SeqRange(done) \cup StoredLocs(list0))
    /\ (pc = "loop" ~> pc = "idle")

\* C6 witness: compile of a#, whose property p refers back to a#, returned
\* after compiling its four locations.
C6_Witness ==
    /\ pc = "idle" /\ ret.status = "ok" /\ reqLoc = Bare("a")
    /\ Len(done) = 4 /\ NoDup(done)
    /\ \E k \in 1..Len(list) : list[k].loc = Loc("a", <<"properties", "p">>)
                                /\ list[k].ref_ = Some(ret.idx)

RECURSIVE Height(_)
\* The nesting depth of a value.
Height(v) ==
    LET kids == IF v.t = "obj" THEN {v.o[i][2] : i \in 1..Len(v.o)}
                ELSE IF v.t = "arr" THEN SeqRange(v.a) ELSE {}
    IN IF kids = {} THEN 1
       ELSE 1 + (CHOOSE h \in {Height(k) : k \in kids} : \A k \in kids : Height(k) <= h)

RECURSIVE HasKind(_, _)
\* The error tree e holds an error of the kind.
HasKind(e, kind) == e.kind = kind \/ \E i \in 1..Len(e.causes) : HasKind(e.causes[i], kind)

\* C7: every validate call returns without exhausting the stack, its scope
\* chain no longer than (nodes + 1) * (nesting depth of the instance + 1),
\* and a node that refers to itself is answered with an error tree that holds
\* a RefCycle error.
C7_ValidationBounded ==
    vout.called =>
        /\ vout.crash # "overflow"
        /\ vout.depth <= (Len(list) + 1) * (Height(vin.v) + 1)
        /\ list[vin.idx + 1].ref_ = Some(vin.idx) => (~vout.ok /\ HasKind(vout.err, "RefCycle"))

\* C7 witness: the node of {"$ref": "#/definitions/e"} at c#/definitions/e
\* was validated and the answer is an error.
C7_Witness ==
    /\ vout.called /\ list[vin.idx + 1].loc = Loc("c", <<"definitions", "e">>)
    /\ list[vin.idx + 1].ref_ = Some(vin.idx)
    /\ ~vout.ok /\ vout.crash = "" /\ vout.depth = 2

\* The value of the documents at a location.
ValueAt(loc) == lookup_ptr(Doc(loc.url), loc.ptr)

\* C8: a node compiled from the literal false rejects every instance with a
\* FalseSchema error and a node compiled from the literal true accepts every
\* instance, validated as the root or as the sub-schema of property y of c#.
C8_BooleanSchemas ==
    (vout.called /\ vout.crash = "") =>
        /\ ValueAt(list[vin.idx + 1].loc) = Some(JBool(FALSE))
              => (~vout.ok /\ HasKind(vout.err, "FalseSchema"))
        /\ ValueAt(list[vin.idx + 1].loc) = Some(JBool(TRUE)) => vout.ok
        /\ (list[vin.idx + 1].loc = Loc("c", <<>>) /\ vin.v = JObj(<< <<"y", JNum(1)>> >>))
              => ~vout.ok

\* The node's value is an object with a "$ref" string in a pre-2019 document.
IsPre2019Ref(s) ==
    LET val == ValueAt(s.loc).v
    IN /\ DraftVersion(s.loc.url) < 2019
       /\ val.t = "obj" /\ HasKey(val.o, "$ref") /\ Get(val.o, "$ref").t = "str"

RewritePairs ==
    {<<Loc("c", <<"definitions", "i">>), Loc("c", <<"definitions", "r">>)>>}

\* C10: a schema and its rewrite with one sub-schema referenced via "$ref"
\* instead of inlined accept the same instances.
C10_InlineEqualsRef ==
    \A pair \in RewritePairs :
        (vout.called /\ vout.crash = "" /\ list[vin.idx + 1].loc = pair[1]
         /\ pair[2] \in DOMAIN map /\ SchemasValidate(vin.v, map[pair[2]]).crash = "")
            => vout.ok = SchemasValidate(vin.v, map[pair[2]]).ok

\* The node validated last, and the node at a location.
VNode == list[vin.idx + 1]
Validated(loc) == vout.called /\ vout.crash = "" /\ VNode.loc = loc
\* The branches of a list of sub-schemas that accept the instance, from 0.
Matching(v, branches) == {i \in 0..(Len(branches) - 1) : SchemasValidate(v, branches[i + 1]).ok}
\* A node with the location, the index and the dialect flag of sch and no
\* keyword.
Blank(sch) ==
    [SchemaNew(sch.loc) EXCEPT !.idx = sch.idx,
                               !.contains_marks_evaluated = sch.contains_marks_evaluated]
\* The node holds oneOf and no other keyword.
OnlyOneOf(sch) == sch = [Blank(sch) EXCEPT !.one_of = sch.one_of]

\* C11: a node with oneOf rejects an instance that no branch accepts and an
\* instance that two or more branches accept, the latter with a OneOf error;
\* a node that holds oneOf alone accepts an instance iff exactly one branch
\* accepts it.
C11_OneOfExactlyOne ==
    (vout.called /\ vout.crash = "" /\ VNode.one_of # <<>>) =>
        LET n == Cardinality(Matching(vin.v, VNode.one_of))
        IN /\ n = 0 => ~vout.ok
           /\ n >= 2 => (~vout.ok /\ HasKind(vout.err, "OneOf"))
           /\ OnlyOneOf(VNode) => (vout.ok <=> n = 1)

\* C11 witness: the oneOf node of d# accepted 5, which its second branch
\* alone accepts.
C11_Witness ==
    /\ Validated(Loc("d", <<"properties", "one">>)) /\ vin.v = JNum(5) /\ vout.ok
    /\ OnlyOneOf(VNode) /\ Matching(vin.v, VNode.one_of) = {1}

\* The least member of a non-empty set of numbers.
Least(S) == CHOOSE i \in S : \A j \in S : i <= j
\* The errors of the kind that the validated node itself reported.
OwnErrors(kind) ==
    SelectSeq(vout.err.causes, LAMBDA e : e.kind = kind /\ e.url = VNode.loc)

\* C12: when two or more oneOf branches accept the instance the node reports
\* one oneOf error, OneOf(Some((i, j))) with i and j the indices of the first
\* two matching branches, however many branches match.
C12_OneOfFirstTwo ==
    (vout.called /\ vout.crash = "" /\ VNode.one_of # <<>>) =>
        LET m == Matching(vin.v, VNode.one_of)
        IN Cardinality(m) >= 2 =>
              /\ Len(OwnErrors("OneOf")) = 1
              /\ OwnErrors("OneOf")[1].d = <<Least(m), Least(m \ {Least(m)})>>

RECURSIVE ReportedBy(_, _)
\* The error tree e holds an error reported by the node at loc, or by a
\* visit in boolean-result mode when loc is EmptyLoc.
ReportedBy(e, loc) == e.url = loc \/ \E i \in 1..Len(e.causes) : ReportedBy(e.causes[i], loc)
\* The node holds if, then, else and no other keyword.
OnlyIf(sch) == sch = [Blank(sch) EXCEPT !.if_ = sch.if_, !.then = sch.then, !.else_ = sch.else_]
\* An optional sub-schema accepts v, an absent one accepting everything.
Accepts(v, opt) == opt.some => SchemasValidate(v, opt.v).ok

\* C13: for a node with if, no error of the if sub-schema (none of a visit
\* in boolean-result mode) is in the result; when if accepts the instance no
\* error of else is, and when if rejects it no error of then is; and a node
\* that holds if, then and else alone accepts the instance iff (if and then)
\* or (not if and else) accept it, an absent then or else accepting.
C13_IfThenElse ==
    (vout.called /\ vout.crash = "" /\ VNode.if_.some) =>
        LET ifOk == SchemasValidate(vin.v, VNode.if_.v).ok
        IN /\ ~vout.ok => /\ ~ReportedBy(vout.err, list[VNode.if_.v + 1].loc)
                          /\ ~ReportedBy(vout.err, EmptyLoc)
                          /\ (ifOk /\ VNode.else_.some)
                                => ~ReportedBy(vout.err, list[VNode.else_.v + 1].loc)
                          /\ (~ifOk /\ VNode.then.some)
                                => ~ReportedBy(vout.err, list[VNode.then.v + 1].loc)
           /\ OnlyIf(VNode) =>
                 (vout.ok <=> \/ ifOk /\ Accepts(vin.v, VNode.then)
                              \/ ~ifOk /\ Accepts(vin.v, VNode.else_))

\* C13 witness: {"if": string, "then": maxLength 2, "else": number} of d#
\* accepted 5, which its if rejects and its then would accept.
C13_Witness ==
    /\ Validated(Loc("d", <<"properties", "ite">>)) /\ vin.v = JNum(5) /\ vout.ok
    /\ OnlyIf(VNode) /\ VNode.then.some /\ VNode.else_.some
    /\ ~SchemasValidate(vin.v, VNode.if_.v).ok

\* The value at loc is {"properties": {..}, "unevaluatedProperties": false}
\* in a document of draft 2019-09 or later.
ClosedByUnevaluated(loc) ==
    LET val == ValueAt(loc).v
    IN /\ DraftVersion(loc.url) >= 2019
       /\ val.t = "obj" /\ Keys(val.o) = <<"properties", "unevaluatedProperties">>
       /\ Get(val.o, "unevaluatedProperties") = JBool(FALSE)
RECURSIVE At(_, _)
\* The error tree e holds an error at the instance location.
At(e, iloc) == e.iloc = iloc \/ \E i \in 1..Len(e.causes) : At(e.causes[i], iloc)

\* C14: a node of {"properties": {..}, "unevaluatedProperties": false} in a
\* 2019-09 or later document, validated with an object whose properties named
\* under "properties" are accepted there, flags exactly the properties that
\* "properties" did not evaluate: it accepts the object iff there is none,
\* and reports an error at each of them otherwise.
C14_UnevaluatedProperties ==
    (vout.called /\ vout.crash = "" /\ ClosedByUnevaluated(VNode.loc) /\ vin.v.t = "obj") =>
        LET props == VNode.properties
            named == {i \in 1..Len(vin.v.o) : HasKey(props, vin.v.o[i][1])}
            flagged == {vin.v.o[i][1] : i \in (1..Len(vin.v.o)) \ named}
        IN (\A i \in named : SchemasValidate(vin.v.o[i][2], Get(props, vin.v.o[i][1])).ok) =>
              /\ vout.ok <=> flagged = {}
              /\ \A q \in flagged : At(vout.err, <<q>>)

\* The nodes of {"$dynamicRef": "#A"}, each with the one schema of its
\* document that declares "$dynamicAnchor": "A".
DynamicRefs ==
    {<<Loc("d", <<"properties", "dyn">>), Loc("d", <<"properties", "tgt">>)>>}

\* C15: a node of {"$dynamicRef": "#A"}, entered as the root of the
\* validation in a document whose only declaration of the dynamic anchor A is
\* one schema, validates the instance against that schema: it accepts the
\* instance iff that schema accepts it, and reports a failure under a
\* Reference error at "$dynamicRef".
C15_DynamicRef ==
    \A pair \in DynamicRefs :
        (Validated(pair[1]) /\ pair[2] \in DOMAIN map
         /\ Get(ValueAt(pair[1]).v.o, "$dynamicRef") = JStr("#A")
         /\ Get(ValueAt(pair[2]).v.o, "$dynamicAnchor") = JStr("A")) =>
            /\ vout.ok = SchemasValidate(vin.v, map[pair[2]]).ok
            /\ ~vout.ok => /\ vout.err.causes[1].kind = "Reference"
                           /\ vout.err.causes[1].kw = <<"$dynamicRef">>

\* A draft-4 schema with a boolean exclusive flag, and the schema of a later
\* draft it is claimed to equal: {"minimum": 5, "exclusiveMinimum": true} and
\* {"exclusiveMinimum": 5}, likewise for the maximum, and
\* {"minimum": 5, "exclusiveMinimum": false} and {"minimum": 5}.
ExclusivePairs ==
    {<<Loc("a", <<"definitions", "x", "properties", "lo">>), Loc("d", <<"properties", "gt">>)>>,
     <<Loc("a", <<"definitions", "x", "properties", "hi">>), Loc("d", <<"properties", "lt">>)>>,
     <<Loc("a", <<"definitions", "x", "properties", "lof">>), Loc("d", <<"properties", "ge">>)>>}
\* The value of the node is an object with a number under name and a
\* boolean under exclusiveName.
HasFlag(sch, name, exclusiveName) ==
    LET val == ValueAt(sch.loc).v
    IN /\ val.t = "obj"
       /\ HasKey(val.o, name) /\ Get(val.o, name).t = "num"
       /\ HasKey(val.o, exclusiveName) /\ Get(val.o, exclusiveName).t = "bool"
\* The bound of the node is in the exclusive slot alone when the flag is
\* true and in the inclusive slot alone when it is false.
FlagMoved(sch, name, exclusiveName, bound, exclusive) ==
    HasFlag(sch, name, exclusiveName) =>
        LET val == ValueAt(sch.loc).v.o
        IN IF Get(val, exclusiveName).b
           THEN bound = None /\ exclusive = Some(Get(val, name).n)
           ELSE bound = Some(Get(val, name).n) /\ exclusive = None

\* C16: the node of a schema with a number under minimum (maximum) and a
\* boolean under exclusiveMinimum (exclusiveMaximum) holds the bound in the
\* exclusive slot alone when the flag is true and in the inclusive slot alone
\* when it is false; and the draft-4 node of {"minimum": 5,
\* "exclusiveMinimum": true} accepts an instance iff the 2020-12 node of
\* {"exclusiveMinimum": 5} accepts it, likewise for the maximum, and for
\* the false flag and {"minimum": 5}.
C16_ExclusiveFlag ==
    /\ \A k \in 1..Len(list) :
          /\ FlagMoved(list[k], "minimum", "exclusiveMinimum",
                       list[k].minimum, list[k].exclusive_minimum)
          /\ FlagMoved(list[k], "maximum", "exclusiveMaximum",
                       list[k].maximum, list[k].exclusive_maximum)
    /\ \A pair \in ExclusivePairs :
          (Validated(pair[1]) /\ pair[2] \in DOMAIN map) =>
              vout.ok = SchemasValidate(vin.v, map[pair[2]]).ok

\* C16 witness: the draft-4 node of {"minimum": 5, "exclusiveMinimum": true}
\* rejected 5 with an ExclusiveMinimum error, as the 2020-12 node of
\* {"exclusiveMinimum": 5} does.
C16_Witness ==
    /\ Validated(Loc("a", <<"definitions", "x", "properties", "lo">>))
    /\ vin.v = JNum(5) /\ ~vout.ok /\ HasKind(vout.err, "ExclusiveMinimum")
    /\ Loc("d", <<"properties", "gt">>) \in DOMAIN map
    /\ ~SchemasValidate(vin.v, map[Loc("d", <<"properties", "gt">>)]).ok

\* The node holds contains, minContains, maxContains and no other keyword.
OnlyContains(sch) ==
    sch = [Blank(sch) EXCEPT !.contains = sch.contains, !.min_contains = sch.min_contains,
                             !.max_contains = sch.max_contains]
\* The number under name in the value of the node, or the default.
NumberAt(sch, name, default) ==
    LET val == ValueAt(sch.loc).v.o
    IN IF HasKey(val, name) /\ Get(val, name).t = "num" THEN Get(val, name).n ELSE default

\* C17: for an array and a 2019-09 or later node with contains, with n the
\* number of elements the contains schema accepts: fewer than minContains
\* (1 when absent) is an error, of kind MinContains, or Contains when
\* minContains is absent; more than maxContains is a MaxContains error; and
\* a node that holds these keywords alone accepts the array otherwise, so
\* minContains 0 accepts an array with no matching element.
C17_Contains ==
    (vout.called /\ vout.crash = "" /\ VNode.contains.some /\ vin.v.t = "arr"
     /\ DraftVersion(VNode.loc.url) >= 2019) =>
        LET n == Cardinality({i \in 1..Len(vin.v.a) :
                                  SchemasValidate(vin.v.a[i], VNode.contains.v).ok})
            hasMin == HasKey(ValueAt(VNode.loc).v.o, "minContains")
            min == NumberAt(VNode, "minContains", 1)
            hasMax == HasKey(ValueAt(VNode.loc).v.o, "maxContains")
            max == NumberAt(VNode, "maxContains", 0)
        IN /\ n < min => (~vout.ok /\ Len(OwnErrors(IF hasMin THEN "MinContains" ELSE "Contains")) = 1)
           /\ (hasMax /\ n > max) => (~vout.ok /\ Len(OwnErrors("MaxContains")) = 1)
           /\ OnlyContains(VNode) => (vout.ok <=> (n >= min /\ (hasMax => n <= max)))

\* C17 witness: the node of {"contains": number, "minContains": 0} of d#
\* accepted ["ab"], no element of which is a number.
C17_Witness ==
    /\ Validated(Loc("d", <<"properties", "con0">>)) /\ vin.v = JArr(<<JStr("ab")>>) /\ vout.ok
    /\ VNode.contains.some /\ VNode.min_contains = Some(0)
    /\ ~SchemasValidate(vin.v.a[1], VNode.contains.v).ok

\* The keywords that refer to a node.
RefKeywords == {"$ref", "$recursiveRef", "$dynamicRef"}
\* The index the node holds for the keyword, if it holds one.
RefTarget(sch, kw) ==
    CASE kw = "$ref" -> sch.ref_
      [] kw = "$recursiveRef" -> sch.recursive_ref
      [] kw = "$dynamicRef" -> [some |-> sch.dynamic_ref.some, v |-> sch.dynamic_ref.sch]
RECURSIVE ReferencesWrapped(_)
\* Every Reference error of the tree e is at a reference keyword of a stored
\* node, names the location of the node that keyword refers to, and has
\* causes, none of them a Group.
ReferencesWrapped(e) ==
    /\ e.kind = "Reference" =>
          /\ \E kw \in RefKeywords : \E k \in 1..Len(list) :
                /\ e.kw = <<kw>> /\ e.url = list[k].loc
                /\ RefTarget(list[k], kw).some
                /\ e.u = list[RefTarget(list[k], kw).v + 1].loc
          /\ e.causes # <<>>
          /\ \A i \in 1..Len(e.causes) : e.causes[i].kind # "Group"
    /\ \A i \in 1..Len(e.causes) : ReferencesWrapped(e.causes[i])

\* C18: every Reference error in the error tree of a validate call is at a
\* reference keyword of a node, with the location of the node referred to
\* as its url and with causes; and when the validated node holds "$ref" and
\* its target rejects the instance, the only cause of the result is a
\* Reference error at "$ref" of the node, with the target's location as url
\* and, unless the target was entered twice (RefCycle), the errors of the
\* target as its causes, those of a Group in place of the Group.
C18_ReferenceWrapped ==
    (vout.called /\ vout.crash = "" /\ ~vout.ok) =>
        /\ ReferencesWrapped(vout.err)
        /\ VNode.ref_.some =>
              LET target == SchemasValidate(vin.v, VNode.ref_.v)
                  r == vout.err.causes[1]
              IN /\ Len(vout.err.causes) = 1
                 /\ r.kind = "Reference" /\ r.kw = <<"$ref">> /\ r.url = VNode.loc
                 /\ r.iloc = <<>> /\ r.u = list[VNode.ref_.v + 1].loc
                 /\ ~target.ok
                 /\ ~HasKind(vout.err, "RefCycle") => r.causes = target.err.causes

\* C18 witness: {"$ref": "#/definitions/s"} of a# rejected 5 with a Reference
\* error naming a#/definitions/s, its cause the Type error of the target.
C18_Witness ==
    /\ Validated(Loc("a", <<"properties", "q">>)) /\ vin.v = JNum(5) /\ ~vout.ok
    /\ VNode.ref_.some /\ VNode.ref_.v < Len(list)
    /\ vout.err.causes[1].kind = "Reference"
    /\ vout.err.causes[1].u = Loc("a", <<"definitions", "s">>)
    /\ Len(vout.err.causes[1].causes) = 1
    /\ vout.err.causes[1].causes[1].kind = "Type"
    /\ vout.err.causes[1].causes[1].url = Loc("a", <<"definitions", "s">>)

OnlyMaxLength(sch) == sch = [Blank(sch) EXCEPT !.max_length = sch.max_length]

\* C20: for a string and a node with maxLength (and no enum, which ends the
\* visit when it fails, see C25), the limit being the number of the schema:
\* the node reports a MaxLength error iff the string has more characters
\* than the limit, one error with got the number of characters and want the
\* limit; and the result of a node that holds maxLength alone is then
\* invalid with that error as its single cause, and valid otherwise.
C20_MaxLength ==
    (vout.called /\ vout.crash = "" /\ VNode.max_length.some /\ vin.v.t = "str"
     /\ ~VNode.enum_.some) =>
        LET limit == NumberAt(VNode, "maxLength", 0)
            got == Len(vin.v.s)
            e == MkErr("MaxLength", VNode.loc, <<"maxLength">>, <<>>, Nums(<<got, limit>>))
        IN /\ VNode.max_length = Some(limit)
           /\ OwnErrors("MaxLength") = IF got > limit THEN <<e>> ELSE <<>>
           /\ got > limit => ~vout.ok
           /\ OnlyMaxLength(VNode) =>
                 /\ vout.ok <=> got <= limit
                 /\ ~vout.ok => vout.err.causes = <<e>>

\* C20 witness: the node of {"maxLength": 2} of d# rejected "abc" with the
\* single error MaxLength{got: 3, want: 2}.
C20_Witness ==
    /\ Validated(Loc("d", <<"properties", "len">>)) /\ vin.v = JStr("abc") /\ ~vout.ok
    /\ OnlyMaxLength(VNode) /\ VNode.max_length = Some(2)
    /\ vout.err.kind = "Schema" /\ Len(vout.err.causes) = 1
    /\ vout.err.causes[1].kind = "MaxLength" /\ vout.err.causes[1].d = <<3, 2>>

\* The keywords compile_one reads from some draft on, each with that draft.
GatedSince ==
    {<<"propertyNames", 6>>, <<"contains", 6>>,
     <<"if", 7>>, <<"then", 7>>, <<"else", 7>>,
     <<"dependentSchemas", 2019>>, <<"dependentRequired", 2019>>,
     <<"minContains", 2019>>, <<"maxContains", 2019>>,
     <<"prefixItems", 2020>>}

\* The field of sch that keyword kw is compiled into holds its default.
Unset(sch, kw) ==
    CASE kw = "propertyNames" -> sch.property_names = None
      [] kw = "contains" -> sch.contains = None
      [] kw = "if" -> sch.if_ = None
      [] kw = "then" -> sch.then = None
      [] kw = "else" -> sch.else_ = None
      [] kw = "dependentSchemas" -> sch.dependent_schemas = <<>>
      [] kw = "dependentRequired" -> sch.dependent_required = <<>>
      [] kw = "minContains" -> sch.min_contains = None
      [] kw = "maxContains" -> sch.max_contains = None
      [] kw = "prefixItems" -> sch.prefix_items = <<>>

\* The schema at loc is an object that holds keywords, each of them one that
\* the draft of its root does not read yet.
OnlyLaterKeywords(loc) ==
    LET val == ValueAt(loc)
    IN /\ val.some /\ val.v.t = "obj" /\ val.v.o # <<>>
       /\ \A i \in 1..Len(val.v.o) :
             \E g \in GatedSince : g[1] = val.v.o[i][1] /\ DraftVersion(loc.url) < g[2]

\* C21: a keyword is compiled only when the draft of the root that owns the
\* node allows it: propertyNames and contains from draft 6, if from draft 7
\* with then and else only beside a compiled if, dependentSchemas,
\* dependentRequired, minContains and maxContains from 2019, prefixItems and
\* the 2020 items from 2020, the older items and additionalItems only before
\* 2020; and a schema that holds nothing but keywords its draft does not
\* allow yet accepts every instance.
C21_DraftGating ==
    /\ \A i \in 1..Len(list) :
          LET sch == list[i]
              version == DraftVersion(sch.loc.url)
          IN /\ \A g \in GatedSince : version < g[2] => Unset(sch, g[1])
             /\ sch.if_ = None => (sch.then = None /\ sch.else_ = None)
             /\ version < 2020 => (sch.items2020 = None /\ ~sch.contains_marks_evaluated)
             /\ version >= 2020 => (sch.items = NoItems /\ sch.additional_items = NoAdditional)
    /\ (vout.called /\ vout.crash = "" /\ OnlyLaterKeywords(VNode.loc)) => vout.ok

\* The draft-4 node that holds "contains", "propertyNames", "if", "else",
\* "prefixItems" and the 2019 keywords was validated against [5], which
\* "contains": {"type": "string"} would reject, and accepted it.
C21_Witness ==
    /\ Validated(Loc("a", <<"definitions", "x", "properties", "old">>))
    /\ OnlyLaterKeywords(VNode.loc)
    /\ HasKey(ValueAt(VNode.loc).v.o, "contains")
    /\ vin.v = JArr(<<JNum(5)>>)
    /\ vout.ok

\* The scope chains of up to MaxChain scopes over two schemas that
\* validate, validate_val and _validate_self can build: the root scope has
\* vid 0, each further scope the vid of its parent (an in-place visit) or
\* that vid plus one (a visit of a sub-value).
MaxChain == 4
ScopeChains ==
    UNION {{[i \in 1..n |->
               Scope_child(schs[i], "", Cardinality({j \in 2..i : steps[j] = 1}))] :
                <<schs, steps>> \in [1..n -> 0..1] \X [1..n -> 0..1]} : n \in 1..MaxChain}

\* The ancestors of the last scope of ch that visit the same value with
\* the same schema.
SameValueAncestors(ch) ==
    {i \in 1..(Len(ch) - 1) : ch[i].vid = ch[Len(ch)].vid /\ ch[i].sch = ch[Len(ch)].sch}

\* C22: a visit is reported as a reference cycle iff an ancestor scope
\* visits the same value (same vid) with the same schema, and the scope
\* named is the nearest such ancestor; stopping the walk at the first
\* ancestor with another vid misses none.  A schema that refers to itself
\* in place is reported as RefCycle, and the root schema re-entered through
\* a reference for the sub-value of property p is no cycle: the instance is
\* accepted.
C22_CycleIffSameValue ==
    /\ \A ch \in ScopeChains :
          /\ check_cycle(ch) # 0 <=> SameValueAncestors(ch) # {}
          /\ check_cycle(ch) # 0 =>
                /\ check_cycle(ch) \in SameValueAncestors(ch)
                /\ \A i \in SameValueAncestors(ch) : i <= check_cycle(ch)
    /\ Validated(Loc("c", <<"definitions", "e">>)) =>
          ~vout.ok /\ HasKind(vout.err, "RefCycle")
    /\ (Validated(Loc("a", <<>>)) /\ vin.v = JObj(<< <<"p", JObj(<< <<"y", JNum(1)>> >>)>>,
                                                    <<"y", JNum(1)>> >>)) =>
          vout.ok /\ ~HasKind(vout.err, "RefCycle")

\* The root of document a was validated against {"p": {"y": 1}, "y": 1}: the
\* chain of the visit of the value of p is root (vid 0), property p (vid 1),
\* root again through "$ref": "#" (vid 1), and the visit was no cycle.
C22_Witness ==
    /\ Validated(Loc("a", <<>>))
    /\ vin.v = JObj(<< <<"p", JObj(<< <<"y", JNum(1)>> >>)>>, <<"y", JNum(1)>> >>)
    /\ VNode.properties # <<>>
    /\ list[Get(VNode.properties, "p") + 1].ref_ = Some(VNode.idx)
    /\ vout.ok /\ vout.depth = 3

\* The unevaluated sets a visit of v can hold: names of v's properties and
\* indices of v's items.
UnevalSets(v) ==
    [props : SUBSET {v.o[i][1] : i \in 1..Len(v.o)}, items : SUBSET (0..(Len(v.a) - 1))]

\* The visit of the validated node as the root of the validation, its
\* unevaluated set being u, and that visit's step into the target of its
\* "$ref".
RootVisit == [v |-> vin.v, sch |-> vin.idx, scope |-> <<Scope_child(vin.idx, "", 0)>>,
              bool |-> FALSE, vloc |-> <<>>, seed |-> FALSE]
IntoRef(u) ==
    validate_self_(RootVisit, [errors |-> <<>>, uneval |-> u, crash |-> "", depth |-> 1],
                   VNode.ref_.v, "$ref", FALSE)

\* C23: when the in-place child of a node (here the target of its "$ref")
\* accepts the instance, the node's unevaluated set becomes the intersection
\* of the set it had and the set the child returned; when the child rejects
\* the instance the node's set is unchanged; and whatever set a node visit
\* starts with, the set it returns holds nothing else.
C23_UnevalIntersected ==
    vout.called =>
        \A u \in UnevalSets(vin.v) :
            /\ (VNode.ref_.some /\ VNode.ref_.v < Len(list)) =>
                  Bind(IntoRef(u), LAMBDA x :
                      x.r.crash = "" =>
                          IF x.r.ok
                          THEN /\ x.st.uneval.props = u.props \cap x.r.uneval.props
                               /\ x.st.uneval.items = u.items \cap x.r.uneval.items
                          ELSE x.st.uneval = u)
            /\ Bind(validate(RootVisit, u), LAMBDA r :
                   (r.crash = "" /\ r.ok) =>
                       (r.uneval.props \subseteq u.props /\ r.uneval.items \subseteq u.items))

\* a#/properties/p = {"$ref": "#"} was validated against {"p": {"y": 1}, "y": 1}:
\* the root of a, entered for a caller that holds {"p", "y"}, accepts and
\* returns {"y"}, the property it has no schema for, and the caller is left
\* with {"y"}.
C23_Witness ==
    /\ Validated(Loc("a", <<"properties", "p">>))
    /\ vin.v = JObj(<< <<"p", JObj(<< <<"y", JNum(1)>> >>)>>, <<"y", JNum(1)>> >>)
    /\ VNode.ref_.some /\ VNode.ref_.v < Len(list)
    /\ LET x == IntoRef([props |-> {"p", "y"}, items |-> {}])
       IN x.r.ok /\ x.r.uneval.props = {"y"} /\ x.st.uneval.props = {"y"}

\* The nodes of {"$recursiveRef": "#/properties/tgt"}, each with the schema
\* the reference names, which declares no "$recursiveAnchor".
RecursiveRefs ==
    {<<Loc("d", <<"properties", "rec">>), Loc("d", <<"properties", "tgt">>)>>}

\* C24: a node with "$recursiveRef" whose static target has no
\* "$recursiveAnchor": true validates the instance against that target: it
\* accepts the instance iff the target accepts it.  (With the anchor set the
\* outermost resource root on the scope chain that sets it is used instead.)
C24_RecursiveRef ==
    \A pair \in RecursiveRefs :
        (Validated(pair[1]) /\ pair[2] \in DOMAIN map
         /\ HasKey(ValueAt(pair[1]).v.o, "$recursiveRef")
         /\ ~HasKey(ValueAt(pair[2]).v.o, "$recursiveAnchor")) =>
            vout.ok = SchemasValidate(vin.v, map[pair[2]]).ok

\* C25: enum and const do not suppress the later assertions of their node:
\* a string that is none of the values of "enum", differs from "const" and
\* is longer than "maxLength" gets an error of each of the three keywords.
C25_EnumConstIndependent ==
    (vout.called /\ vout.crash = "" /\ ValueAt(VNode.loc).some /\ ValueAt(VNode.loc).v.t = "obj") =>
        LET obj == ValueAt(VNode.loc).v.o
        IN (/\ vin.v.t = "str"
            /\ HasKey(obj, "enum") /\ Get(obj, "enum").t = "arr"
            /\ \A i \in 1..Len(Get(obj, "enum").a) : Get(obj, "enum").a[i] # vin.v
            /\ HasKey(obj, "const") /\ Get(obj, "const") # vin.v
            /\ HasKey(obj, "maxLength") /\ Get(obj, "maxLength").t = "num"
            /\ Len(vin.v.s) > Get(obj, "maxLength").n) =>
               /\ ~vout.ok
               /\ HasKind(vout.err, "Enum")
               /\ HasKind(vout.err, "Const")
               /\ HasKind(vout.err, "MaxLength")

\* C26: when no branch of oneOf accepts the instance, the node reports one
\* oneOf error, OneOf(None), whose causes are the errors of the branches, one
\* of each branch, for a oneOf of one branch as for one of several.
C26_OneOfNoneWrapped ==
    (vout.called /\ vout.crash = "" /\ VNode.one_of # <<>>
     /\ Matching(vin.v, VNode.one_of) = {}) =>
        /\ Len(OwnErrors("OneOf")) = 1
        /\ OwnErrors("OneOf")[1].d = <<>>
        /\ OwnErrors("OneOf")[1].kw = <<"oneOf">>
        /\ Len(OwnErrors("OneOf")[1].causes) = Len(VNode.one_of)

\* The schema that element j of an array is validated by in a node with
\* list-form "items" and a schema "additionalItems" (before 2020-12), or
\* with "prefixItems" and "items" (2020-12): the j-th of the list, and the
\* schema for the rest past the list.
Positional(sch) ==
    \/ sch.items.tag = "refs" /\ sch.additional_items.tag = "ref"
    \/ sch.prefix_items # <<>> /\ sch.items2020.some
ElementSchema(sch, j) ==
    IF sch.items.tag = "refs"
    THEN (IF j < Len(sch.items.list) THEN sch.items.list[j + 1] ELSE sch.additional_items.idx)
    ELSE (IF j < Len(sch.prefix_items) THEN sch.prefix_items[j + 1] ELSE sch.items2020.v)

\* C27: the instance location of an error is the JSON pointer of the
\* sub-value it is about: in an array validated by list-form items and
\* additionalItems, or by prefixItems and items, the result holds an error at
\* /j, the actual index of an element, iff the schema for element j rejects
\* that element.
C27_ElementLocation ==
    (vout.called /\ vout.crash = "" /\ Positional(VNode) /\ vin.v.t = "arr") =>
        \A j \in 0..(Len(vin.v.a) - 1) :
            At(vout.err, <<ToStr(j)>>) <=>
                ~SchemasValidate(vin.v.a[j + 1], ElementSchema(VNode, j)).ok

\* The visit of the validated node as the root of the validation, with
\* bool_result set.
BoolVisit == validate([RootVisit EXCEPT !.bool = TRUE], Uneval_from(vin.v, VNode, FALSE))

\* The error made up by a visit in boolean-result mode.
IsFabricated(e) == e.kind = "Group" /\ e.url = EmptyLoc /\ e.iloc = <<>>
RECURSIVE HoldsFabricated(_)
HoldsFabricated(e) ==
    IsFabricated(e) \/ \E i \in 1..Len(e.causes) : HoldsFabricated(e.causes[i])

\* C28: boolean-result mode changes the diagnostics and never the verdict:
\* the visit of a node with bool_result set accepts the instance iff the
\* visit without it does; and the error tree that validate returns holds no
\* error made up in boolean-result mode (kind Group, empty schema url and
\* instance location).
C28_BoolModeSameVerdict ==
    (vout.called /\ vout.crash = "") =>
        /\ Bind(BoolVisit, LAMBDA rb : rb.crash = "" => rb.ok = vout.ok)
        /\ ~vout.ok => ~HoldsFabricated(vout.err)

\* The three-branch oneOf node was validated against "abc": branch 0
\* accepts, branch 1 is then visited in boolean-result mode and rejects,
\* branch 2 accepts, and the result is invalid with no made-up error in it;
\* the visit of the node in boolean-result mode rejects too, its error being
\* the made-up one.
C28_Witness ==
    /\ Validated(Loc("d", <<"properties", "one">>)) /\ vin.v = JStr("abc")
    /\ Matching(vin.v, VNode.one_of) = {0, 2}
    /\ ~vout.ok /\ HasKind(vout.err, "OneOf") /\ ~HoldsFabricated(vout.err)
    /\ ~BoolVisit.ok /\ BoolVisit.crash = "" /\ HoldsFabricated(BoolVisit.err)
====
